---- MODULE Spec2Model ----
(***************************************************************************)
(* FitnessHack API server: the per-resource CRUD handlers of               *)
(* internal/server (users, workouts, exercises, workout sessions), the     *)
(* Redis cache they read through and invalidate, and the Postgres store    *)
(* behind internal/database.  Every handler is a sequence of I/O steps     *)
(* (one cache or store call each); requests of different processes         *)
(* interleave between steps.                                               *)
(***************************************************************************)
EXTENDS Integers, Sequences, FiniteSets, TLC

\* ------------------------------------------------------------- bounds
NumProcs == 2
MaxId == 1

Procs == 1..NumProcs
Ids == 1..MaxId

\* ------------------------------------------------------- data domains
Kinds == {"user", "workout", "exercise", "workout_session"}
\* kinds whose rows carry user_id REFERENCES users(id) ON DELETE CASCADE
OwnedKinds == {"workout", "workout_session"}
\* the tables of the store: programs has handlers of its own; its user_id
\* references users(id) ON DELETE CASCADE as well
Tables == Kinds \cup {"program"}
UserOwned == OwnedKinds \cup {"program"}
\* the resource kinds one behaviour works on (kinds share no state except
\* through the users foreign key)
SingleScopes == {{k} : k \in Kinds}
CascadeScopes == {{"user", k} : k \in OwnedKinds}

Names == {"a", "b"}
Descrs == {"x", "y"}
Hashes == {"h1", "h2"}
Omit == "omit"

\* prog: the program a workout row refers to (program_id), "" for NULL
NoRow == [id |-> 0, owner |-> 0, name |-> "", descr |-> "", pw |-> "", prog |-> ""]
NoPatch == [name |-> Omit, descr |-> Omit, pw |-> Omit, prog |-> Omit]
\* jwt: "valid" when the request carries a bearer token the JWT middleware
\* accepts, "none" when the token is missing, malformed or wrongly signed
JwtStates == {"valid", "none"}
NoReq == [op |-> "none", kind |-> "", id |-> 0, patch |-> NoPatch, limit |-> 0, offset |-> 0,
          jwt |-> "valid"]
NoResp == [status |-> 0, body |-> <<>>]
NoCalc == [fn |-> "none", in |-> <<>>, out |-> <<>>]
NoLast == [op |-> "none", kind |-> "", id |-> 0, patch |-> NoPatch, hadEntry |-> FALSE]
\* hit: the cache lookup hit and deserialized; dbq, cw: store queries and cache
\* writes made; dbOk: the read's store query returned data; cacheErr: a cache
\* call of the read failed; committed: the mutation's store write succeeded;
\* delOk: its point-key deletion succeeded; hadEntry: the point key was cached
\* when it committed
\* dbDown: a store call of the request failed for a connection or timeout error;
\* rowThere: the row the mutation names was in the store when its statement ran;
\* violates: the store rejected the statement for a constraint violation
NoGhost == [hit |-> FALSE, dbq |-> 0, cw |-> 0, dbOk |-> FALSE, cacheErr |-> FALSE,
            committed |-> FALSE, delOk |-> TRUE, overlap |-> FALSE, hadEntry |-> FALSE,
            dbDown |-> FALSE, rowThere |-> FALSE, violates |-> FALSE, printed |-> << >>]

\* workout_exercises: up to MaxWE rows, each the (workout_id, exercise_id,
\* order_index) of a join row
MaxWE == 2
WEIds == 1..MaxWE
NoWE == [workout |-> 0, exercise |-> 0, order |-> 0]
WERows == [workout : {1}, exercise : {1, 2}, order : {0, 1}]

\* no transaction open: neither the migration's SQL nor its row is pending
NoTx == [exec |-> FALSE, row |-> FALSE]

\* migration files are named by numbers that order as their file names do;
\* a process invokes RunMigrations up to MaxRuns times
MaxMigrations == 3
MaxRuns == 3
MigrationNames == 1..MaxMigrations

\* table: the rows of the migrations table (their names, in insertion order);
\* schema[n]: how many times the SQL of migration n has been committed;
\* files, i, appliedMap: the sorted files, the loop position and the names read
\* by GetAppliedMigrations; tx: what the open transaction has pending;
\* result: what the last invocation returned. failed, failKind, attempted,
\* doneNow: the migration whose ApplyMigration failed and at which call, the
\* migrations ApplyMigration was called for and those committed, in the
\* current invocation (read by the properties only)
NoMig == [pc |-> "idle", files |-> << >>, i |-> 0, appliedMap |-> {}, table |-> << >>,
          schema |-> [n \in MigrationNames |-> 0], tx |-> NoTx, result |-> "none",
          runs |-> 0, failed |-> 0, failKind |-> "none", attempted |-> {}, doneNow |-> {}]

\* processes that run RunMigrations on the same database, each up to
\* MaxConcRuns times
MigProcs == 1..NumProcs
MaxConcRuns == 2
NoRunner == [pc |-> "idle", files |-> << >>, i |-> 0, appliedMap |-> {}, tx |-> NoTx,
             result |-> "none", runs |-> 0, failed |-> 0, failKind |-> "none",
             doneNow |-> {}]
NoConcMig == [table |-> << >>, schema |-> [n \in MigrationNames |-> 0],
              runner |-> [q \in MigProcs |-> NoRunner]]

\* the browser. "" stands for null (currentUser, error) and for no item
\* (localStorage authToken); calls: the users whose login or register request
\* has not been answered; lastCall: the UserStore method that ran, or whose
\* request was answered, last (read by the properties only)
FrontendUsers == {"u1", "u2"}
MaxCalls == 2
NoFrontend == [currentUser |-> "", isLoading |-> FALSE, error |-> "", authToken |-> "",
               location |-> "/login", calls |-> << >>, lastCall |-> "none"]

\* ---------------------------------------------------------------- schema
\* the migration files 001 .. 007 of the repository, by number
LastMigration == 7
AllTables == Tables \cup {"workout_exercise"}

\* tables: the tables defined; userFks: the tables whose user_id REFERENCES
\* users(id) ON DELETE CASCADE; updatedAt: the tables with an updated_at
\* column; triggers: the tables with a BEFORE UPDATE trigger that assigns
\* NEW.updated_at
NoSchema == [tables |-> {}, userFks |-> {}, updatedAt |-> {}, triggers |-> {}]

\* the SQL of migration file n, applied to a schema
ApplySQL(sch, n) ==
    CASE n = 1 -> [sch EXCEPT !.tables = @ \cup {"user"}, !.updatedAt = @ \cup {"user"}]
      [] n = 2 -> [sch EXCEPT !.tables = @ \cup {"workout"}, !.updatedAt = @ \cup {"workout"},
                              !.userFks = @ \cup {"workout"}]
      [] n = 3 -> [sch EXCEPT !.tables = @ \cup {"exercise"}, !.updatedAt = @ \cup {"exercise"}]
      [] n = 4 -> [sch EXCEPT !.tables = @ \cup {"workout_exercise"}]
      [] n = 5 -> [sch EXCEPT !.tables = @ \cup {"workout_session"},
                              !.updatedAt = @ \cup {"workout_session"},
                              !.userFks = @ \cup {"workout_session"}]
      [] n = 6 -> [sch EXCEPT !.tables = @ \cup {"program"}, !.updatedAt = @ \cup {"program"},
                              !.userFks = @ \cup {"program"}]
      \* DROP TABLE IF EXISTS users CASCADE drops the constraints that reference
      \* users; CREATE TABLE users; a trigger on each of the six tables
      [] n = 7 -> [sch EXCEPT !.userFks = {}, !.triggers = AllTables]
      [] OTHER -> sch

RECURSIVE SchemaAfter(_)
SchemaAfter(n) == IF n = 0 THEN NoSchema ELSE ApplySQL(SchemaAfter(n - 1), n)

\* a database migrated before 007_fix_users_table.sql was added, or through it
SchemaLevels == {LastMigration - 1, LastMigration}

VARIABLES
    store,      \* store[k][id]: the row of table k with that id, or NoRow
    nextId,     \* nextId[k]: the next id the store generates for table k
    fkCascade,  \* whether the users(id) ON DELETE CASCADE references are in force
    cache,      \* Redis: key string -> payload
    scope,      \* the resource kinds this behaviour issues requests on
    pc,         \* pc[p]: the next I/O step of the request process p handles
    req,        \* req[p]: the request (handler, path id, body, pagination)
    local,      \* local[p]: the rows the handler holds in its local variables
    resp,       \* resp[p]: the HTTP response once the handler has returned
    g,          \* g[p]: bookkeeping about the request, read by the properties only
    last,       \* the request that returned last, when it was a successful mutation
                \* (kept for a single client only; read by the properties only)
    calc,       \* one call of a helper function: its name, arguments and result
    mig,        \* the migration manager: the database's migrations table and
                \* schema, and the position of the running RunMigrations call
    schema,     \* what the migration files applied to this database have defined
    we,         \* we[id]: the row of workout_exercises with that id, or NoWE
    cmig,       \* one database migrated by several processes at once: its
                \* migrations table and schema, and each process's RunMigrations
    fe          \* the browser: the UserStore's fields, localStorage, the
                \* location, and the login and register calls in flight

vars == <<store, nextId, fkCascade, cache, scope, pc, req, local, resp, g, last, calc, mig,
          schema, we, cmig, fe>>

\* ------------------------------------------------------ HTTP statuses
StatusOK == 200
StatusCreated == 201
StatusNoContent == 204
StatusBadRequest == 400
StatusUnauthorized == 401
StatusNotFound == 404
StatusInternalServerError == 500
\* the handler panicked: no response is written
StatusPanic == 0

\* ---------------------------------------------------------- cache keys
Plural(k) == k \o "s"

\* xCacheKey: fmt.Sprintf("x:%s", id), id the text of the path parameter
pointKeyOf(k, idText) == k \o ":" \o idText

pointCacheKey(k, id) == pointKeyOf(k, ToString(id))

\* variant: limit and offset written with nothing between them
listCacheKey_NoSep(k, limit, offset) ==
    Plural(k) \o ":list:" \o ToString(limit) \o ToString(offset)

listCacheKey(k, limit, offset) ==
    Plural(k) \o ":list:" \o ToString(limit) \o ":" \o ToString(offset)

\* the argument the handlers give cache.Del to invalidate the list family
listPattern(k) == Plural(k) \o ":list:*"

\* the key of a descriptor: a point key (kind, id text) or a list key (kind,
\* limit, offset)
CacheKey(d) ==
    IF d.form = "point" THEN pointKeyOf(d.kind, d.id)
    ELSE listCacheKey(d.kind, d.limit, d.offset)

\* the kinds that have key helpers, id texts a path can carry, and windows
KeyKinds == Kinds \cup {"workout_exercise"}
IdTexts == {"1", "2", "", "list:10:0", "s:list:10:0", "_session:1"}
KeyLimits == {1, 10, 11, 100}
KeyOffsets == {0, 1, 10}

KeyDescriptors ==
    [form : {"point"}, kind : KeyKinds, id : IdTexts, limit : {0}, offset : {0}]
    \cup [form : {"list"}, kind : KeyKinds, id : {""}, limit : KeyLimits, offset : KeyOffsets]

\* ------------------------------------------------------- Redis client
GetCache(c, key) ==
    IF key \in DOMAIN c THEN [ok |-> TRUE, v |-> c[key]]
    ELSE [ok |-> FALSE, v |-> [t |-> "bad", v |-> <<>>]]

SetCache(c, key, val) ==
    [x \in DOMAIN c \cup {key} |-> IF x = key THEN val ELSE c[x]]

\* variant: a DEL that removes nothing
DeleteCache_Nothing(c, key) == c

\* Redis DEL removes the keys named, literally: it matches no pattern
DeleteCache(c, key) == [x \in DOMAIN c \ {key} |-> c[x]]

\* --------------------------------------------------------- encoding/json
Marshal(row) == [t |-> "obj", v |-> <<row>>]
MarshalList(rows) == [t |-> "arr", v |-> rows]
UnmarshalOk(payload, want) == payload.t = want

\* -------------------------------------------------------- pagination
\* variant: a limit out of range is clamped to the nearest bound
getPaginationParams_Clamp(lq, oq) ==
    LET l0 == IF lq = <<>> THEN 10 ELSE lq[1]
        o0 == IF oq = <<>> THEN 0 ELSE oq[1]
    IN  [limit |-> IF l0 < 1 THEN 1 ELSE IF l0 > 100 THEN 100 ELSE l0,
         offset |-> IF o0 < 0 THEN 0 ELSE o0]

\* variant: the requested limit is used as it arrives
getPaginationParams_Unchecked(lq, oq) ==
    LET l0 == IF lq = <<>> THEN 10 ELSE lq[1]
        o0 == IF oq = <<>> THEN 0 ELSE oq[1]
    IN  [limit |-> l0, offset |-> IF o0 < 0 THEN 0 ELSE o0]

\* a query parameter is <<>> when absent and <<n>> when present (strconv.Atoi
\* gives 0 for text that is no number)
getPaginationParams(lq, oq) ==
    LET l0 == IF lq = <<>> THEN 10 ELSE lq[1]
        o0 == IF oq = <<>> THEN 0 ELSE oq[1]
    IN  [limit |-> IF l0 <= 0 \/ l0 > 100 THEN 10 ELSE l0,
         offset |-> IF o0 < 0 THEN 0 ELSE o0]

\* the values a limit or offset parameter can carry: absent, or a number
BigNumber == 1000000
PageLimitQueries == { <<>> } \cup { <<n>> : n \in -2..102 } \cup { <<BigNumber>>, <<-BigNumber>> }
PageOffsetQueries == { <<>> } \cup { <<n>> : n \in -2..3 } \cup { <<BigNumber>>, <<-BigNumber>> }

\* query strings that all select the default window, and one more window
DefaultQueries == { << <<>>, <<>> >>, << <<101>>, <<-1>> >>, << <<0>>, <<0>> >> }
ListQueries == DefaultQueries \cup { << <<1>>, <<1>> >> }

\* ------------------------------------------------------------- store
Exists(s, k, id) == id \in Ids /\ s[k][id] # NoRow

\* ids of table k in ORDER BY created_at DESC (ids are generated in creation order)
RECURSIVE DescIds(_, _, _)
DescIds(s, k, n) ==
    IF n = 0 THEN <<>>
    ELSE (IF s[k][n] # NoRow THEN <<n>> ELSE <<>>) \o DescIds(s, k, n - 1)

Min(a, b) == IF a < b THEN a ELSE b

\* SELECT * FROM k ORDER BY created_at DESC LIMIT limit OFFSET offset
ListRows(s, k, limit, offset) ==
    LET ids == DescIds(s, k, MaxId)
        hi == Min(Len(ids), offset + limit)
    IN  [i \in 1..(IF hi > offset THEN hi - offset ELSE 0) |-> s[k][ids[offset + i]]]

\* users.email and users.username are UNIQUE
UniqueOk(s, k, id, row) ==
    k = "user" => \A j \in Ids : (j # id /\ s[k][j] # NoRow) => s[k][j].name # row.name

\* DELETE FROM k WHERE id = $1, with the cascade of the users foreign keys
DeleteRow(s, k, id, cascade) ==
    [kk \in Tables |->
        [j \in Ids |->
            IF kk = k /\ j = id THEN NoRow
            ELSE IF k = "user" /\ cascade /\ kk \in UserOwned /\ s[kk][j].owner = id
                 THEN NoRow
                 ELSE s[kk][j]]]

\* ------------------------------------------------------- conversions
\* xToResponse: the response model has no password field
ToResponse(row) == [id |-> row.id, owner |-> row.owner, name |-> row.name, descr |-> row.descr]

ToResponses(rows) == [i \in 1..Len(rows) |-> ToResponse(rows[i])]

\* variant: the copy for the cache keeps the hash
BlankPassword_Keep(row) == row

\* getUser / listUsers: userToCache.Password_hash = ""
BlankPassword(row) == [row EXCEPT !.pw = ""]

ToCache(k, row) == IF k = "user" THEN BlankPassword(row) ELSE row

ToCacheList(k, rows) == [i \in 1..Len(rows) |-> ToCache(k, rows[i])]

\* "Update fields if provided": the handlers test name, description and the
\* other columns of their kind; updateWorkout has no test of req.ProgramID
ApplyPatch(row, patch) ==
    [row EXCEPT !.name = IF patch.name # Omit THEN patch.name ELSE @,
                !.descr = IF patch.descr # Omit THEN patch.descr ELSE @,
                !.pw = IF patch.pw # Omit THEN patch.pw ELSE @]

\* ------------------------------------------------------ request inputs
NamePatches == { [NoPatch EXCEPT !.name = "b"] }
FieldPatches == { [NoPatch EXCEPT !.name = "b"], [NoPatch EXCEPT !.descr = "y"] }
\* bodies of PUT /workouts/:id: UpdateWorkoutRequest also carries programId
WorkoutPatches ==
    { [NoPatch EXCEPT !.name = "b"], [NoPatch EXCEPT !.prog = "p1"],
      [NoPatch EXCEPT !.name = "b", !.descr = "y", !.prog = "p1"] }

\* the locals the JWT middleware sets on the request context (its default
\* ContextKey), and the authenticated user
JwtLocals == {"user"}
AuthUser == 1

\* c.Locals(key): <<>> is nil; under the middleware's key, the token of AuthUser
Locals(key) == IF key \in JwtLocals THEN <<AuthUser>> ELSE <<>>

\* the routes registered on the /api/v1 group before api.Use(jwtware.New(...)):
\* POST /users (POST /auth/login is the helper loginUser)
Public(r) == r.op = "create" /\ r.kind = "user"

\* ---------------------------------------------------------- bookkeeping
PointReq(r) == r.op \in {"get", "update", "delete"}

SameEntity(r1, r2) == PointReq(r1) /\ PointReq(r2) /\ r1.kind = r2.kind /\ r1.id = r2.id

\* overlap: from its store commit on, another request on the same entity was in flight
Mark(ng, npc, nreq) ==
    [p \in Procs |->
        [ng[p] EXCEPT !.overlap =
            @ \/ (ng[p].committed /\ npc[p] # "idle"
                  /\ \E q \in Procs \ {p} : npc[q] # "idle" /\ SameEntity(nreq[p], nreq[q]))]]

Move(p, npcp, nreqp, nlocalp, nrespp, ngp) ==
    LET npc == [pc EXCEPT ![p] = npcp]
        nreq == [req EXCEPT ![p] = nreqp]
    IN  /\ pc' = npc
        /\ req' = nreq
        /\ local' = [local EXCEPT ![p] = nlocalp]
        /\ resp' = [resp EXCEPT ![p] = nrespp]
        /\ g' = Mark([g EXCEPT ![p] = ngp], npc, nreq)

Respond(status, rows) == [status |-> status, body |-> ToResponses(rows)]

\* -------------------------------------------------------------- logging
\* errorHandler, the logging middleware: one WARN entry "HTTP <status>" for a
\* response of status 400 or more; its metadata names no component
errorHandler(status) ==
    IF status >= 400
    THEN << [level |-> "WARN", message |-> "HTTP", status |-> status, component |-> "none"] >>
    ELSE << >>

\* the entries written for the request of p up to its response: the handlers
\* call none of LogCacheError, LogDatabaseError, LogError
RequestLog(p) == IF pc[p] = "done" THEN errorHandler(resp[p].status) ELSE << >>

\* variant: a cache hit that still goes on to the store
getByID_Lookup_Through(p, coks) ==
    /\ pc[p] = "idle"
    /\ \E k \in scope, id \in Ids, cok \in coks :
        LET got == GetCache(cache, pointCacheKey(k, id))
            r == [NoReq EXCEPT !.op = "get", !.kind = k, !.id = id]
        IN  Move(p, "get_db", r, <<>>, NoResp,
                 [NoGhost EXCEPT !.hit = cok /\ got.ok /\ UnmarshalOk(got.v, "obj"),
                                 !.cacheErr = ~cok])
    /\ UNCHANGED <<store, nextId, fkCascade, cache, scope, last, calc, mig, schema, we, cmig, fe>>

\* ------------------------------------------------------- point read
\* getX, "Try to get from cache first"
getByID_Lookup(p, coks) ==
    /\ pc[p] = "idle"
    /\ \E k \in scope, id \in Ids, cok \in coks :
        LET got == GetCache(cache, pointCacheKey(k, id))
            r == [NoReq EXCEPT !.op = "get", !.kind = k, !.id = id]
        IN  IF cok /\ got.ok /\ UnmarshalOk(got.v, "obj")
            THEN Move(p, "done", r, got.v.v, Respond(StatusOK, got.v.v),
                      [NoGhost EXCEPT !.hit = TRUE])
            ELSE Move(p, "get_db", r, <<>>, NoResp, [NoGhost EXCEPT !.cacheErr = ~cok])
    /\ UNCHANGED <<store, nextId, fkCascade, cache, scope, last, calc, mig, schema, we, cmig, fe>>

\* variant: a failed store query still goes on to the cache write
getByID_Query_Populate(p, doks) ==
    /\ pc[p] = "get_db"
    /\ \E dok \in doks :
        LET k == req[p].kind
            id == req[p].id
            ng == [g[p] EXCEPT !.dbq = @ + 1, !.dbDown = ~dok]
        IN  IF dok /\ Exists(store, k, id)
            THEN Move(p, "get_set", req[p], <<store[k][id]>>, NoResp,
                      [ng EXCEPT !.dbOk = TRUE])
            ELSE Move(p, "get_set", req[p], <<NoRow>>, NoResp, ng)
    /\ UNCHANGED <<store, nextId, fkCascade, cache, scope, last, calc, mig, schema, we, cmig, fe>>

\* getX, "Get from database"
getByID_Query(p, doks) ==
    /\ pc[p] = "get_db"
    /\ \E dok \in doks :
        LET k == req[p].kind
            id == req[p].id
            ng == [g[p] EXCEPT !.dbq = @ + 1, !.dbDown = ~dok]
        IN  IF dok /\ Exists(store, k, id)
            THEN Move(p, "get_set", req[p], <<store[k][id]>>, NoResp,
                      [ng EXCEPT !.dbOk = TRUE])
            ELSE Move(p, "done", req[p], <<>>, Respond(StatusNotFound, <<>>), ng)
    /\ UNCHANGED <<store, nextId, fkCascade, cache, scope, last, calc, mig, schema, we, cmig, fe>>

\* variant: a failed cache write fails the read
getByID_Set_Strict(p, coks) ==
    /\ pc[p] = "get_set"
    /\ \E cok \in coks :
        LET k == req[p].kind
            key == pointCacheKey(k, req[p].id)
            ng == [g[p] EXCEPT !.cw = @ + 1, !.cacheErr = @ \/ ~cok]
        IN  /\ cache' = IF cok THEN SetCache(cache, key, Marshal(ToCache(k, local[p][1])))
                        ELSE cache
            /\ IF cok
               THEN Move(p, "done", req[p], local[p], Respond(StatusOK, local[p]), ng)
               ELSE Move(p, "done", req[p], local[p],
                         Respond(StatusInternalServerError, <<>>), ng)
    /\ UNCHANGED <<store, nextId, fkCascade, scope, last, calc, mig, schema, we, cmig, fe>>

\* getX, "Cache the data"
getByID_Set(p, coks) ==
    /\ pc[p] = "get_set"
    /\ \E cok \in coks :
        LET k == req[p].kind
            key == pointCacheKey(k, req[p].id)
        IN  /\ cache' = IF cok THEN SetCache(cache, key, Marshal(ToCache(k, local[p][1])))
                        ELSE cache
            /\ Move(p, "done", req[p], local[p], Respond(StatusOK, local[p]),
                    [g[p] EXCEPT !.cw = @ + 1, !.cacheErr = @ \/ ~cok])
    /\ UNCHANGED <<store, nextId, fkCascade, scope, last, calc, mig, schema, we, cmig, fe>>

\* -------------------------------------------------------- list read
listAll_Lookup(p, coks, queries) ==
    /\ pc[p] = "idle"
    /\ \E k \in scope, q \in queries, cok \in coks :
        LET pg == getPaginationParams(q[1], q[2])
            got == GetCache(cache, listCacheKey(k, pg.limit, pg.offset))
            r == [NoReq EXCEPT !.op = "list", !.kind = k,
                               !.limit = pg.limit, !.offset = pg.offset]
        IN  IF cok /\ got.ok /\ UnmarshalOk(got.v, "arr")
            THEN Move(p, "done", r, got.v.v, Respond(StatusOK, got.v.v),
                      [NoGhost EXCEPT !.hit = TRUE])
            ELSE Move(p, "list_db", r, <<>>, NoResp, [NoGhost EXCEPT !.cacheErr = ~cok])
    /\ UNCHANGED <<store, nextId, fkCascade, cache, scope, last, calc, mig, schema, we, cmig, fe>>

listAll_Query(p, doks) ==
    /\ pc[p] = "list_db"
    /\ \E dok \in doks :
        LET rows == ListRows(store, req[p].kind, req[p].limit, req[p].offset)
            ng == [g[p] EXCEPT !.dbq = @ + 1, !.dbDown = ~dok]
        IN  IF dok
            THEN Move(p, "list_set", req[p], rows, NoResp, [ng EXCEPT !.dbOk = TRUE])
            ELSE Move(p, "done", req[p], <<>>, Respond(StatusInternalServerError, <<>>), ng)
    /\ UNCHANGED <<store, nextId, fkCascade, cache, scope, last, calc, mig, schema, we, cmig, fe>>

listAll_Set(p, coks) ==
    /\ pc[p] = "list_set"
    /\ \E cok \in coks :
        LET k == req[p].kind
            key == listCacheKey(k, req[p].limit, req[p].offset)
        IN  /\ cache' = IF cok
                        THEN SetCache(cache, key, MarshalList(ToCacheList(k, local[p])))
                        ELSE cache
            /\ Move(p, "done", req[p], local[p], Respond(StatusOK, local[p]),
                    [g[p] EXCEPT !.cw = @ + 1, !.cacheErr = @ \/ ~cok])
    /\ UNCHANGED <<store, nextId, fkCascade, scope, last, calc, mig, schema, we, cmig, fe>>

\* ------------------------------------------------------------ create
\* id uuid DEFAULT gen_random_uuid(): the id of a new row is one that no request
\* in flight names
FreshId(k, id) ==
    \A q \in Procs : ~(pc[q] # "idle" /\ PointReq(req[q]) /\ req[q].kind = k /\ req[q].id = id)

\* CreateUser: fmt.Printf("DEBUG: Inserting user with values: ...
\* passwordHash=%s ..."), the password hashes the call writes to standard
\* output; the other CreateX print nothing
DebugPrintf(k, row) == IF k = "user" THEN << row.pw >> ELSE << >>

\* createX: build the row, insert it; a row of an owned kind takes its owner
\* from c.Locals("user_id").(string), which panics on nil. POST /users is
\* registered before the JWT middleware and runs with or without a token.
createEntity_Insert(p, doks) ==
    /\ pc[p] = "idle"
    /\ \E k \in scope, name \in Names, dok \in doks, jwt \in JwtStates :
        LET r == [NoReq EXCEPT !.op = "create", !.kind = k, !.jwt = jwt]
            uid == Locals("user_id")
            id == nextId[k]
            row == [id |-> id,
                    owner |-> IF k \in OwnedKinds THEN uid[1] ELSE 0,
                    name |-> name, descr |-> "x",
                    pw |-> IF k = "user" THEN "h1" ELSE "", prog |-> ""]
        IN  /\ Public(r) \/ jwt = "valid"
            /\ IF k \in OwnedKinds /\ uid = <<>>
               THEN /\ Move(p, "done", r, <<>>, Respond(StatusPanic, <<>>), NoGhost)
                    /\ UNCHANGED <<store, nextId>>
               ELSE IF dok /\ UniqueOk(store, k, id, row)
                    THEN /\ id <= MaxId
                         /\ FreshId(k, id)
                         /\ store' = [store EXCEPT ![k][id] = row]
                         /\ nextId' = [nextId EXCEPT ![k] = @ + 1]
                         /\ Move(p, "cr_dellist", r, <<row>>, NoResp,
                                 [NoGhost EXCEPT !.dbq = 1, !.committed = TRUE,
                                                 !.printed = DebugPrintf(k, row)])
                    ELSE /\ Move(p, "done", r, <<>>,
                                 Respond(StatusInternalServerError, <<>>),
                                 [NoGhost EXCEPT !.dbq = 1, !.dbDown = ~dok,
                                                 !.violates = dok,
                                                 !.printed = DebugPrintf(k, row)])
                         /\ UNCHANGED <<store, nextId>>
    /\ UNCHANGED <<fkCascade, cache, scope, last, calc, mig, schema, we, cmig, fe>>

\* variant: the create also stores the new row under its point key
createEntity_DeleteList_WriteThrough(p, coks) ==
    /\ pc[p] = "cr_dellist"
    /\ \E cok \in coks :
        /\ cache' = IF cok
                    THEN SetCache(cache, pointCacheKey(req[p].kind, local[p][1].id),
                                  Marshal(ToCache(req[p].kind, local[p][1])))
                    ELSE cache
        /\ Move(p, "done", req[p], local[p], Respond(StatusCreated, local[p]), g[p])
    /\ UNCHANGED <<store, nextId, fkCascade, scope, last, calc, mig, schema, we, cmig, fe>>

\* createX, "Invalidate list cache": s.cache.Del(ctx, "xs:list:*")
createEntity_DeleteList(p, coks) ==
    /\ pc[p] = "cr_dellist"
    /\ \E cok \in coks :
        /\ cache' = IF cok THEN DeleteCache(cache, listPattern(req[p].kind)) ELSE cache
        /\ Move(p, "done", req[p], local[p], Respond(StatusCreated, local[p]), g[p])
    /\ UNCHANGED <<store, nextId, fkCascade, scope, last, calc, mig, schema, we, cmig, fe>>

\* ------------------------------------------------------------ update
\* variant: the update deletes the point key before its store write
updateEntity_Read_DeleteFirst(p, doks, patches) ==
    /\ pc[p] = "idle"
    /\ \E k \in scope, id \in Ids, dok \in doks, patch \in patches :
        LET r == [NoReq EXCEPT !.op = "update", !.kind = k, !.id = id, !.patch = patch]
            ng == [NoGhost EXCEPT !.dbq = 1, !.dbDown = ~dok]
        IN  IF dok /\ Exists(store, k, id)
            THEN Move(p, "upd_del", r, <<store[k][id]>>, NoResp, ng)
            ELSE Move(p, "done", r, <<>>, Respond(StatusNotFound, <<>>), ng)
    /\ UNCHANGED <<store, nextId, fkCascade, cache, scope, last, calc, mig, schema, we, cmig, fe>>

\* updateX, "Get existing"
updateEntity_Read(p, doks, patches) ==
    /\ pc[p] = "idle"
    /\ \E k \in scope, id \in Ids, dok \in doks, patch \in patches :
        LET r == [NoReq EXCEPT !.op = "update", !.kind = k, !.id = id, !.patch = patch]
            ng == [NoGhost EXCEPT !.dbq = 1, !.dbDown = ~dok]
        IN  IF dok /\ Exists(store, k, id)
            THEN Move(p, "upd_write", r, <<store[k][id]>>, NoResp, ng)
            ELSE Move(p, "done", r, <<>>, Respond(StatusNotFound, <<>>), ng)
    /\ UNCHANGED <<store, nextId, fkCascade, cache, scope, last, calc, mig, schema, we, cmig, fe>>

\* variant: an update whose store write failed still deletes the point key
updateEntity_Write_DeleteOnFail(p, doks) ==
    /\ pc[p] = "upd_write"
    /\ \E dok \in doks :
        LET k == req[p].kind
            id == req[p].id
            row == ApplyPatch(local[p][1], req[p].patch)
        IN  IF dok /\ Exists(store, k, id) /\ UniqueOk(store, k, id, row)
            THEN /\ store' = [store EXCEPT ![k][id] = row]
                 /\ cache' = cache
                 /\ Move(p, "upd_del", req[p], <<row>>, NoResp,
                         [g[p] EXCEPT !.dbq = @ + 1, !.committed = TRUE, !.rowThere = TRUE,
                                      !.hadEntry = pointCacheKey(k, id) \in DOMAIN cache])
            ELSE /\ cache' = DeleteCache(cache, pointCacheKey(k, id))
                 /\ Move(p, "done", req[p], <<>>,
                         Respond(StatusInternalServerError, <<>>),
                         [g[p] EXCEPT !.dbq = @ + 1, !.dbDown = ~dok])
                 /\ UNCHANGED store
    /\ UNCHANGED <<nextId, fkCascade, scope, last, calc, mig, schema, we, cmig, fe>>

\* updateX, "Update fields if provided", then UpdateX: UPDATE k SET every
\* column from the struct WHERE id = :id RETURNING *
updateEntity_Write(p, doks) ==
    /\ pc[p] = "upd_write"
    /\ \E dok \in doks :
        LET k == req[p].kind
            id == req[p].id
            row == ApplyPatch(local[p][1], req[p].patch)
        IN  IF dok /\ Exists(store, k, id) /\ UniqueOk(store, k, id, row)
            THEN /\ store' = [store EXCEPT ![k][id] = row]
                 /\ Move(p, "upd_del", req[p], <<row>>, NoResp,
                         [g[p] EXCEPT !.dbq = @ + 1, !.committed = TRUE, !.rowThere = TRUE,
                                      !.hadEntry = pointCacheKey(k, id) \in DOMAIN cache])
            ELSE /\ Move(p, "done", req[p], <<>>,
                         Respond(StatusInternalServerError, <<>>),
                         [g[p] EXCEPT !.dbq = @ + 1, !.dbDown = ~dok,
                                      !.violates = dok /\ Exists(store, k, id)])
                 /\ UNCHANGED store
    /\ UNCHANGED <<nextId, fkCascade, cache, scope, last, calc, mig, schema, we, cmig, fe>>

\* variant: the update leaves the point key alone
updateEntity_DeletePoint_Skip(p, coks) ==
    /\ pc[p] = "upd_del"
    /\ \E cok \in coks :
        Move(p, "upd_dellist", req[p], local[p], NoResp, [g[p] EXCEPT !.delOk = @ /\ cok])
    /\ UNCHANGED <<store, nextId, fkCascade, cache, scope, last, calc, mig, schema, we, cmig, fe>>

\* updateX, "Invalidate cache": s.DeleteCache(ctx, xCacheKey(id))
updateEntity_DeletePoint(p, coks) ==
    /\ pc[p] = "upd_del"
    /\ \E cok \in coks :
        /\ cache' = IF cok THEN DeleteCache(cache, pointCacheKey(req[p].kind, req[p].id))
                    ELSE cache
        /\ Move(p, "upd_dellist", req[p], local[p], NoResp,
                [g[p] EXCEPT !.delOk = @ /\ cok])
    /\ UNCHANGED <<store, nextId, fkCascade, scope, last, calc, mig, schema, we, cmig, fe>>

\* variant: a failed list deletion fails the update
updateEntity_DeleteList_Strict(p, coks) ==
    /\ pc[p] = "upd_dellist"
    /\ \E cok \in coks :
        /\ cache' = IF cok THEN DeleteCache(cache, listPattern(req[p].kind)) ELSE cache
        /\ IF cok
           THEN Move(p, "done", req[p], local[p], Respond(StatusOK, local[p]), g[p])
           ELSE Move(p, "done", req[p], local[p],
                     Respond(StatusInternalServerError, <<>>), g[p])
    /\ UNCHANGED <<store, nextId, fkCascade, scope, last, calc, mig, schema, we, cmig, fe>>

\* updateX: s.cache.Del(ctx, "xs:list:*"), then the response
updateEntity_DeleteList(p, coks) ==
    /\ pc[p] = "upd_dellist"
    /\ \E cok \in coks :
        /\ cache' = IF cok THEN DeleteCache(cache, listPattern(req[p].kind)) ELSE cache
        /\ Move(p, "done", req[p], local[p], Respond(StatusOK, local[p]), g[p])
    /\ UNCHANGED <<store, nextId, fkCascade, scope, last, calc, mig, schema, we, cmig, fe>>

\* ------------------------------------------------------------ delete
\* deleteX: DeleteX runs DELETE FROM k WHERE id = $1 and returns only the
\* driver's error (no row affected is no error)
deleteEntity_Exec(p, doks) ==
    /\ pc[p] = "idle"
    /\ \E k \in scope, id \in Ids, dok \in doks :
        LET r == [NoReq EXCEPT !.op = "delete", !.kind = k, !.id = id]
        IN  IF dok
            THEN /\ store' = DeleteRow(store, k, id, fkCascade)
                 /\ Move(p, "del_del", r, <<>>, NoResp,
                         [NoGhost EXCEPT !.dbq = 1, !.committed = TRUE,
                                            !.rowThere = Exists(store, k, id),
                                            !.hadEntry = pointCacheKey(k, id) \in DOMAIN cache])
            ELSE /\ Move(p, "done", r, <<>>, Respond(StatusInternalServerError, <<>>),
                         [NoGhost EXCEPT !.dbq = 1, !.dbDown = TRUE])
                 /\ UNCHANGED store
    /\ UNCHANGED <<nextId, fkCascade, cache, scope, last, calc, mig, schema, we, cmig, fe>>

\* variant: the delete leaves the point key alone
deleteEntity_DeletePoint_Skip(p, coks) ==
    /\ pc[p] = "del_del"
    /\ \E cok \in coks :
        Move(p, "del_dellist", req[p], local[p], NoResp, [g[p] EXCEPT !.delOk = @ /\ cok])
    /\ UNCHANGED <<store, nextId, fkCascade, cache, scope, last, calc, mig, schema, we, cmig, fe>>

\* deleteX, "Invalidate cache": s.DeleteCache(ctx, xCacheKey(id))
deleteEntity_DeletePoint(p, coks) ==
    /\ pc[p] = "del_del"
    /\ \E cok \in coks :
        /\ cache' = IF cok THEN DeleteCache(cache, pointCacheKey(req[p].kind, req[p].id))
                    ELSE cache
        /\ Move(p, "del_dellist", req[p], local[p], NoResp,
                [g[p] EXCEPT !.delOk = @ /\ cok])
    /\ UNCHANGED <<store, nextId, fkCascade, scope, last, calc, mig, schema, we, cmig, fe>>

deleteEntity_DeleteList(p, coks) ==
    /\ pc[p] = "del_dellist"
    /\ \E cok \in coks :
        /\ cache' = IF cok THEN DeleteCache(cache, listPattern(req[p].kind)) ELSE cache
        /\ Move(p, "done", req[p], <<>>, Respond(StatusNoContent, <<>>), g[p])
    /\ UNCHANGED <<store, nextId, fkCascade, scope, last, calc, mig, schema, we, cmig, fe>>

\* ------------------------------------------------- return, environment
\* ------------------------------------------------------------- programs
\* createProgram: "For now, using a placeholder user ID"; the INSERT names it
\* as user_id, which references users(id)
PlaceholderUser == 0

program_Create(p) ==
    /\ pc[p] = "idle"
    /\ \E name \in Names :
        LET r == [NoReq EXCEPT !.op = "create", !.kind = "program"]
            id == nextId["program"]
            row == [NoRow EXCEPT !.id = id, !.owner = PlaceholderUser, !.name = name,
                                 !.descr = "x"]
        IN  IF Exists(store, "user", PlaceholderUser) /\ id <= MaxId
            THEN /\ store' = [store EXCEPT !["program"][id] = row]
                 /\ nextId' = [nextId EXCEPT !["program"] = @ + 1]
                 /\ Move(p, "done", r, <<row>>, Respond(StatusCreated, <<row>>),
                         [NoGhost EXCEPT !.dbq = 1, !.committed = TRUE])
            ELSE /\ Move(p, "done", r, <<>>, Respond(StatusInternalServerError, <<>>),
                         [NoGhost EXCEPT !.dbq = 1, !.violates = TRUE])
                 /\ UNCHANGED <<store, nextId>>
    /\ UNCHANGED <<fkCascade, cache, scope, last, calc, mig, schema, we, cmig, fe>>

\* getProgram: GetProgramByID, then the response
program_Get(p) ==
    /\ pc[p] = "idle"
    /\ \E id \in Ids :
        LET r == [NoReq EXCEPT !.op = "get", !.kind = "program", !.id = id]
        IN  IF Exists(store, "program", id)
            THEN Move(p, "done", r, <<store["program"][id]>>,
                      Respond(StatusOK, <<store["program"][id]>>),
                      [NoGhost EXCEPT !.dbq = 1, !.dbOk = TRUE])
            ELSE Move(p, "done", r, <<>>, Respond(StatusNotFound, <<>>),
                      [NoGhost EXCEPT !.dbq = 1])
    /\ UNCHANGED <<store, nextId, fkCascade, cache, scope, last, calc, mig, schema, we, cmig, fe>>

\* listPrograms: getPaginationParams, ListPrograms, then the response
program_List(p) ==
    /\ pc[p] = "idle"
    /\ \E q \in DefaultQueries :
        LET pg == getPaginationParams(q[1], q[2])
            r == [NoReq EXCEPT !.op = "list", !.kind = "program",
                               !.limit = pg.limit, !.offset = pg.offset]
            rows == ListRows(store, "program", pg.limit, pg.offset)
        IN  Move(p, "done", r, rows, Respond(StatusOK, rows),
                 [NoGhost EXCEPT !.dbq = 1, !.dbOk = TRUE])
    /\ UNCHANGED <<store, nextId, fkCascade, cache, scope, last, calc, mig, schema, we, cmig, fe>>

\* updateProgram: "Get existing program"
program_UpdateRead(p) ==
    /\ pc[p] = "idle"
    /\ \E id \in Ids, patch \in NamePatches :
        LET r == [NoReq EXCEPT !.op = "update", !.kind = "program", !.id = id,
                               !.patch = patch]
        IN  IF Exists(store, "program", id)
            THEN Move(p, "prog_write", r, <<store["program"][id]>>, NoResp,
                      [NoGhost EXCEPT !.dbq = 1])
            ELSE Move(p, "done", r, <<>>, Respond(StatusNotFound, <<>>),
                      [NoGhost EXCEPT !.dbq = 1])
    /\ UNCHANGED <<store, nextId, fkCascade, cache, scope, last, calc, mig, schema, we, cmig, fe>>

\* updateProgram: UpdateProgram, then the response
program_UpdateWrite(p) ==
    /\ pc[p] = "prog_write"
    /\ LET id == req[p].id
           row == ApplyPatch(local[p][1], req[p].patch)
       IN  IF Exists(store, "program", id)
           THEN /\ store' = [store EXCEPT !["program"][id] = row]
                /\ Move(p, "done", req[p], <<row>>, Respond(StatusOK, <<row>>),
                        [g[p] EXCEPT !.dbq = @ + 1, !.committed = TRUE, !.rowThere = TRUE])
           ELSE /\ Move(p, "done", req[p], <<>>, Respond(StatusInternalServerError, <<>>),
                        [g[p] EXCEPT !.dbq = @ + 1])
                /\ UNCHANGED store
    /\ UNCHANGED <<nextId, fkCascade, cache, scope, last, calc, mig, schema, we, cmig, fe>>

\* deleteProgram: DeleteProgram, then 204
program_Delete(p) ==
    /\ pc[p] = "idle"
    /\ \E id \in Ids :
        LET r == [NoReq EXCEPT !.op = "delete", !.kind = "program", !.id = id]
        IN  /\ store' = DeleteRow(store, "program", id, fkCascade)
            /\ Move(p, "done", r, <<>>, Respond(StatusNoContent, <<>>),
                    [NoGhost EXCEPT !.dbq = 1, !.committed = TRUE,
                                    !.rowThere = Exists(store, "program", id)])
    /\ UNCHANGED <<nextId, fkCascade, cache, scope, last, calc, mig, schema, we, cmig, fe>>

\* ----------------------------------------------------- workout exercises
\* UpdateWorkoutExerciseRequest: a field is <<>> when the body omits it
NoWEPatch == [workout |-> << >>, exercise |-> << >>, order |-> << >>]
WEPatches ==
    { [NoWEPatch EXCEPT !.order = <<1>>], [NoWEPatch EXCEPT !.exercise = <<2>>],
      [NoWEPatch EXCEPT !.exercise = <<1>>, !.order = <<0>>] }

\* "Update fields if provided"
ApplyWEPatch(row, patch) ==
    [workout |-> IF patch.workout # << >> THEN patch.workout[1] ELSE row.workout,
     exercise |-> IF patch.exercise # << >> THEN patch.exercise[1] ELSE row.exercise,
     order |-> IF patch.order # << >> THEN patch.order[1] ELSE row.order]

\* variant: no uniqueness constraint on the table
UniqueTriple_Off(t, id, row) == TRUE

\* UNIQUE(workout_id, exercise_id, order_index): no other row has the triple
UniqueTriple(t, id, row) == \A j \in WEIds \ {id} : t[j] # row

\* a BEFORE UPDATE trigger that assigns NEW.updated_at raises on a table
\* without that column
UpdateRaises(sch, table) == table \in sch.triggers /\ table \notin sch.updatedAt

WEReq(op, id, patch) ==
    [NoReq EXCEPT !.op = op, !.kind = "workout_exercise", !.id = id, !.patch = patch]

\* a cache deletion of a workout-exercise handler, and the response when it
\* was the handler's last call
WEInvalidate(p, coks, to, key, status) ==
    /\ \E cok \in coks :
        /\ cache' = IF cok THEN DeleteCache(cache, key) ELSE cache
        /\ Move(p, to, req[p], local[p],
                IF to = "done" THEN [status |-> status, body |-> local[p]] ELSE NoResp,
                [g[p] EXCEPT !.delOk = @ /\ cok])
    /\ UNCHANGED <<store, nextId, fkCascade, scope, last, calc, mig, schema, we, cmig, fe>>

\* createWorkoutExercise: CreateWorkoutExercise
workoutExercise_Insert(p, doks) ==
    /\ pc[p] = "idle"
    /\ \E row \in WERows, dok \in doks :
        LET fresh == { i \in WEIds : we[i] = NoWE /\ FreshId("workout_exercise", i) }
            id == CHOOSE i \in fresh : \A j \in fresh : i <= j
        IN  IF dok /\ UniqueTriple(we, 0, row)
            THEN /\ fresh # {}
                 /\ we' = [we EXCEPT ![id] = row]
                 /\ Move(p, "we_cr_dellist", WEReq("create", 0, NoWEPatch), <<row>>, NoResp,
                         [NoGhost EXCEPT !.dbq = 1, !.committed = TRUE])
            ELSE /\ Move(p, "done", WEReq("create", 0, NoWEPatch), << >>,
                         [status |-> StatusInternalServerError, body |-> << >>],
                         [NoGhost EXCEPT !.dbq = 1, !.dbDown = ~dok, !.violates = dok])
                 /\ UNCHANGED we
    /\ UNCHANGED <<store, nextId, fkCascade, cache, scope, last, calc, mig, schema, cmig, fe>>

\* createWorkoutExercise: s.cache.Del(ctx, "workout_exercises:list:*")
workoutExercise_CreateDeleteList(p, coks) ==
    /\ pc[p] = "we_cr_dellist"
    /\ WEInvalidate(p, coks, "done", listPattern("workout_exercise"),
                 StatusCreated)

\* updateWorkoutExercise: GetWorkoutExerciseByID
workoutExercise_UpdateRead(p, doks) ==
    /\ pc[p] = "idle"
    /\ \E id \in WEIds, patch \in WEPatches, dok \in doks :
        IF dok /\ we[id] # NoWE
        THEN Move(p, "we_upd_write", WEReq("update", id, patch), <<we[id]>>, NoResp,
                  [NoGhost EXCEPT !.dbq = 1])
        ELSE Move(p, "done", WEReq("update", id, patch), << >>,
                  [status |-> StatusNotFound, body |-> << >>],
                  [NoGhost EXCEPT !.dbq = 1, !.dbDown = ~dok])
    /\ UNCHANGED <<store, nextId, fkCascade, cache, scope, last, calc, mig, schema, we, cmig, fe>>

\* updateWorkoutExercise: UpdateWorkoutExercise, UPDATE ... WHERE id=:id RETURNING *
workoutExercise_UpdateWrite(p, doks) ==
    /\ pc[p] = "we_upd_write"
    /\ \E dok \in doks :
        LET id == req[p].id
            row == ApplyWEPatch(local[p][1], req[p].patch)
            raises == we[id] # NoWE /\ UpdateRaises(schema, "workout_exercise")
        IN  IF dok /\ we[id] # NoWE /\ ~raises /\ UniqueTriple(we, id, row)
            THEN /\ we' = [we EXCEPT ![id] = row]
                 /\ Move(p, "we_upd_del", req[p], <<row>>, NoResp,
                         [g[p] EXCEPT !.dbq = @ + 1, !.committed = TRUE, !.rowThere = TRUE])
            ELSE /\ Move(p, "done", req[p], << >>,
                         [status |-> StatusInternalServerError, body |-> << >>],
                         [g[p] EXCEPT !.dbq = @ + 1, !.dbDown = ~dok,
                                      !.rowThere = we[id] # NoWE,
                                      !.violates = dok /\ we[id] # NoWE /\ ~raises])
                 /\ UNCHANGED we
    /\ UNCHANGED <<store, nextId, fkCascade, cache, scope, last, calc, mig, schema, cmig, fe>>

\* updateWorkoutExercise: s.DeleteCache(ctx, workoutExerciseCacheKey(id))
workoutExercise_UpdateDeletePoint(p, coks) ==
    /\ pc[p] = "we_upd_del"
    /\ WEInvalidate(p, coks, "we_upd_dellist",
                 pointCacheKey("workout_exercise", req[p].id), StatusOK)

\* updateWorkoutExercise: s.cache.Del(ctx, "workout_exercises:list:*")
workoutExercise_UpdateDeleteList(p, coks) ==
    /\ pc[p] = "we_upd_dellist"
    /\ WEInvalidate(p, coks, "done", listPattern("workout_exercise"), StatusOK)

\* deleteWorkoutExercise: DeleteWorkoutExercise
workoutExercise_Delete(p, doks) ==
    /\ pc[p] = "idle"
    /\ \E id \in WEIds, dok \in doks :
        IF dok
        THEN /\ we' = [we EXCEPT ![id] = NoWE]
             /\ Move(p, "we_del_del", WEReq("delete", id, NoWEPatch), << >>, NoResp,
                     [NoGhost EXCEPT !.dbq = 1, !.committed = TRUE, !.rowThere = we[id] # NoWE])
        ELSE /\ Move(p, "done", WEReq("delete", id, NoWEPatch), << >>,
                     [status |-> StatusInternalServerError, body |-> << >>],
                     [NoGhost EXCEPT !.dbq = 1, !.dbDown = TRUE])
             /\ UNCHANGED we
    /\ UNCHANGED <<store, nextId, fkCascade, cache, scope, last, calc, mig, schema, cmig, fe>>

\* deleteWorkoutExercise: s.DeleteCache(ctx, workoutExerciseCacheKey(id))
workoutExercise_DeleteDeletePoint(p, coks) ==
    /\ pc[p] = "we_del_del"
    /\ WEInvalidate(p, coks, "we_del_dellist",
                 pointCacheKey("workout_exercise", req[p].id), StatusNoContent)

\* deleteWorkoutExercise: s.cache.Del(ctx, "workout_exercises:list:*")
workoutExercise_DeleteDeleteList(p, coks) ==
    /\ pc[p] = "we_del_dellist"
    /\ WEInvalidate(p, coks, "done", listPattern("workout_exercise"),
                 StatusNoContent)

\* variant: the middleware hands a point read without a token on to its handler
jwtware_Next(p) ==
    /\ pc[p] = "idle"
    /\ \E k \in scope, id \in Ids :
        Move(p, "get_db", [NoReq EXCEPT !.op = "get", !.kind = k, !.id = id, !.jwt = "none"],
             <<>>, NoResp, NoGhost)
    /\ UNCHANGED <<store, nextId, fkCascade, cache, scope, last, calc, mig, schema, we, cmig, fe>>

\* jwtware on a request of a route registered after it that carries no valid
\* token: its ErrorHandler answers 401 and c.Next() is never called
jwtware(p) ==
    /\ pc[p] = "idle"
    /\ \E k \in scope, op \in {"get", "list", "create", "update", "delete"},
          id \in Ids, patch \in NamePatches :
        LET r == [NoReq EXCEPT !.op = op, !.kind = k, !.jwt = "none",
                               !.id = IF op \in {"get", "update", "delete"} THEN id ELSE 0,
                               !.patch = IF op = "update" THEN patch ELSE NoPatch,
                               !.limit = IF op = "list" THEN 10 ELSE 0]
        IN  /\ ~Public(r)
            /\ Move(p, "done", r, <<>>, Respond(StatusUnauthorized, <<>>), NoGhost)
    /\ UNCHANGED <<store, nextId, fkCascade, cache, scope, last, calc, mig, schema, we, cmig, fe>>

\* the handler has returned; the process takes the next request
Return(p, hist) ==
    /\ pc[p] = "done"
    /\ Move(p, "idle", NoReq, <<>>, NoResp, NoGhost)
    /\ last' = IF ~hist THEN last
               ELSE IF g[p].committed
                    THEN [op |-> req[p].op, kind |-> req[p].kind, id |-> req[p].id,
                          patch |-> req[p].patch, hadEntry |-> g[p].hadEntry]
                    ELSE NoLast
    /\ UNCHANGED <<store, nextId, fkCascade, cache, scope, calc, mig, schema, we, cmig, fe>>

\* the TTL of an entry (10 minutes from SetCache) runs out
\* variant: an entry that never expires
ExpireKey_Never(key) ==
    /\ key \in DOMAIN cache
    /\ UNCHANGED <<cache, store, nextId, fkCascade, scope, pc, req, local, resp, g, last, calc, mig, schema, we, cmig, fe>>

ExpireKey(key) ==
    /\ key \in DOMAIN cache
    /\ cache' = [x \in DOMAIN cache \ {key} |-> cache[x]]
    /\ UNCHANGED <<store, nextId, fkCascade, scope, pc, req, local, resp, g, last, calc, mig, schema, we, cmig, fe>>

Expire == \E key \in DOMAIN cache : ExpireKey(key)

\* a cached payload no longer unmarshals into the struct (a deploy changed it)
SchemaDrift ==
    /\ \E key \in DOMAIN cache :
        /\ cache[key].t # "bad"
        /\ cache' = SetCache(cache, key, [t |-> "bad", v |-> <<>>])
    /\ UNCHANGED <<store, nextId, fkCascade, scope, pc, req, local, resp, g, last, calc, mig, schema, we, cmig, fe>>

\* -------------------------------------------------------------- Init
\* The server starts on a database that holds the account that logs in and,
\* for the kinds no handler can insert, rows made earlier; Redis is empty.
SeedRow(k, id) ==
    [id |-> id, owner |-> IF k \in UserOwned THEN AuthUser ELSE 0,
     name |-> "a", descr |-> "x", pw |-> IF k = "user" THEN "h1" ELSE "", prog |-> ""]

Seeded(k, id) == k \in UserOwned \/ (k = "user" /\ id = AuthUser)

InitServer(scopes) ==
    /\ scope \in scopes
    /\ schema \in { SchemaAfter(n) : n \in SchemaLevels }
    /\ fkCascade = (UserOwned \subseteq schema.userFks)
    /\ store = [k \in Tables |-> [id \in Ids |-> IF Seeded(k, id) THEN SeedRow(k, id) ELSE NoRow]]
    /\ nextId = [k \in Tables |-> IF k \in UserOwned THEN MaxId + 1
                                 ELSE IF k = "user" THEN AuthUser + 1 ELSE 1]
    /\ cache = <<>>
    /\ pc = [p \in Procs |-> "idle"]
    /\ req = [p \in Procs |-> NoReq]
    /\ local = [p \in Procs |-> <<>>]
    /\ resp = [p \in Procs |-> NoResp]
    /\ g = [p \in Procs |-> NoGhost]
    /\ last = NoLast
    /\ mig = NoMig
    /\ we = [id \in WEIds |-> NoWE]
    /\ cmig = NoConcMig
    /\ fe = NoFrontend

InitOf(scopes) == InitServer(scopes) /\ calc = NoCalc


Reads(p, coks, doks) ==
    \/ getByID_Lookup(p, coks)
    \/ getByID_Query(p, doks)
    \/ getByID_Set(p, coks)

Lists(p, coks, doks, queries) ==
    \/ listAll_Lookup(p, coks, queries)
    \/ listAll_Query(p, doks)
    \/ listAll_Set(p, coks)

Creates(p, coks, doks) ==
    \/ createEntity_Insert(p, doks)
    \/ createEntity_DeleteList(p, coks)

Updates(p, coks, doks, patches) ==
    \/ updateEntity_Read(p, doks, patches)
    \/ updateEntity_Write(p, doks)
    \/ updateEntity_DeletePoint(p, coks)
    \/ updateEntity_DeleteList(p, coks)

Deletes(p, coks, doks) ==
    \/ deleteEntity_Exec(p, doks)
    \/ deleteEntity_DeletePoint(p, coks)
    \/ deleteEntity_DeleteList(p, coks)

Handler(p, coks, doks, patches, queries) ==
    \/ Reads(p, coks, doks)
    \/ Lists(p, coks, doks, queries)
    \/ Creates(p, coks, doks)
    \/ Updates(p, coks, doks, patches)
    \/ Deletes(p, coks, doks)

\* concurrent requests on one resource kind; any cache or store call may fail
Init == InitOf(SingleScopes)

Next ==
    \/ \E p \in Procs : Handler(p, BOOLEAN, BOOLEAN, NamePatches, DefaultQueries) \/ Return(p, FALSE)
    \/ Expire
    \/ SchemaDrift

Spec == Init /\ [][Next]_vars

\* one client at a time, every cache and store call succeeds
InitSeq == InitOf(SingleScopes \cup CascadeScopes)

NextSeq ==
    \/ Handler(1, {TRUE}, {TRUE}, NamePatches, ListQueries) \/ Return(1, TRUE)
    \/ Expire

SpecSeq == InitSeq /\ [][NextSeq]_vars

\* concurrent creates, updates and deletes of workout exercises; any store
\* call may fail
NextWE ==
    \E p \in Procs :
        \/ workoutExercise_Insert(p, BOOLEAN)
        \/ workoutExercise_CreateDeleteList(p, {TRUE})
        \/ workoutExercise_UpdateRead(p, BOOLEAN)
        \/ workoutExercise_UpdateWrite(p, BOOLEAN)
        \/ workoutExercise_UpdateDeletePoint(p, {TRUE})
        \/ workoutExercise_UpdateDeleteList(p, {TRUE})
        \/ workoutExercise_Delete(p, BOOLEAN)
        \/ workoutExercise_DeleteDeletePoint(p, {TRUE})
        \/ workoutExercise_DeleteDeleteList(p, {TRUE})
        \/ Return(p, FALSE)

SpecWE == InitOf({{"exercise"}}) /\ [][NextWE]_vars

\* concurrent requests on programs; every store call succeeds
NextProg ==
    \E p \in Procs :
        \/ program_Create(p)
        \/ program_Get(p)
        \/ program_List(p)
        \/ program_UpdateRead(p)
        \/ program_UpdateWrite(p)
        \/ program_Delete(p)
        \/ Return(p, FALSE)

SpecProg == InitOf({{"user"}}) /\ [][NextProg]_vars

\* concurrent requests with and without a valid token; every cache and store
\* call succeeds
NextAuth ==
    \/ \E p \in Procs :
        \/ Handler(p, {TRUE}, {TRUE}, NamePatches, DefaultQueries)
        \/ jwtware(p)
        \/ Return(p, FALSE)
    \/ Expire

SpecAuth == InitOf(SingleScopes) /\ [][NextAuth]_vars

\* one client reading, updating and deleting workouts; every cache and store
\* call succeeds
NextUpd ==
    \/ Reads(1, {TRUE}, {TRUE})
    \/ Lists(1, {TRUE}, {TRUE}, DefaultQueries)
    \/ Updates(1, {TRUE}, {TRUE}, WorkoutPatches)
    \/ Deletes(1, {TRUE}, {TRUE})
    \/ Return(1, TRUE)
    \/ Expire

SpecUpd == InitOf({{"workout"}}) /\ [][NextUpd]_vars

\* concurrent point reads, creates, deletes and updates of two fields; every
\* cache and store call succeeds
NextConc ==
    \/ \E p \in Procs :
        \/ Reads(p, {TRUE}, {TRUE})
        \/ Creates(p, {TRUE}, {TRUE})
        \/ Updates(p, {TRUE}, {TRUE}, FieldPatches)
        \/ Deletes(p, {TRUE}, {TRUE})
        \/ Return(p, FALSE)
    \/ Expire

SpecConc == InitOf({{"exercise"}}) /\ [][NextConc]_vars

\* concurrent requests on exercises, every call succeeding, under fair
\* scheduling: a request that has started runs to its response (each store and
\* cache call is bounded by the 5 second context timeout), and the TTL of
\* every entry runs out
LiveKeys ==
    { pointCacheKey("exercise", id) : id \in Ids }
    \cup { listCacheKey("exercise", w.limit, w.offset) :
             w \in { getPaginationParams(q[1], q[2]) : q \in DefaultQueries } }

Continue(p) ==
    /\ pc[p] # "idle"
    /\ \/ Handler(p, {TRUE}, {TRUE}, NamePatches, DefaultQueries)
       \/ Return(p, FALSE)

NextLive ==
    \/ \E p \in Procs : Handler(p, {TRUE}, {TRUE}, NamePatches, DefaultQueries) \/ Return(p, FALSE)
    \/ Expire

SpecLive ==
    /\ InitOf({{"exercise"}})
    /\ [][NextLive]_vars
    /\ \A p \in Procs : WF_vars(Continue(p))
    /\ \A key \in LiveKeys : WF_vars(ExpireKey(key))

\* ------------------------------------------------------------ migrations
Rows(table, name) == { i \in 1..Len(table) : table[i] = name }

\* variant: the files are walked in descending name order
RECURSIVE SortByName_Descending(_)
SortByName_Descending(S) ==
    IF S = {} THEN << >>
    ELSE LET most == CHOOSE n \in S : \A m \in S : m <= n
         IN  << most >> \o SortByName_Descending(S \ {most})

\* sort.Slice(migrationFiles, ... Name < Name)
RECURSIVE SortByName(_)
SortByName(S) ==
    IF S = {} THEN << >>
    ELSE LET least == CHOOSE n \in S : \A m \in S : n <= m
         IN  << least >> \o SortByName(S \ {least})

\* variant: after a failed ApplyMigration the loop goes on with the next file
ReturnError_Continue(m, kind) ==
    [m EXCEPT !.pc = "loop", !.i = @ + 1, !.tx = NoTx, !.result = "err",
              !.failed = m.files[m.i], !.failKind = kind]

\* ApplyMigration returns an error: the deferred tx.Rollback() discards what
\* the transaction had pending, and RunMigrations returns the error at once
ReturnError(m, kind) ==
    [m EXCEPT !.pc = "idle", !.tx = NoTx, !.result = "err",
              !.failed = m.files[m.i], !.failKind = kind]

\* RunMigrations up to the loop: InitMigrationsTable, LoadMigrationFiles,
\* GetAppliedMigrations; any of them may fail
RunMigrations_Start ==
    /\ mig.pc = "idle" /\ mig.runs < MaxRuns
    /\ \E present \in SUBSET MigrationNames, ok \in BOOLEAN :
        LET m == [mig EXCEPT !.runs = @ + 1, !.failed = 0, !.failKind = "none",
                             !.attempted = {}, !.doneNow = {}, !.i = 0,
                             !.files = << >>, !.appliedMap = {}]
        IN  mig' = IF ~ok THEN [m EXCEPT !.result = "err"]
                   ELSE IF present = {} THEN [m EXCEPT !.result = "nil"]
                   ELSE [m EXCEPT !.pc = "loop", !.result = "none", !.i = 1,
                                  !.files = SortByName(present),
                                  !.appliedMap = { mig.table[j] : j \in 1..Len(mig.table) }]
    /\ UNCHANGED <<store, nextId, fkCascade, cache, scope, pc, req, local, resp, g, last, calc, schema, we, cmig, fe>>

\* "Apply pending migrations": the loop header
RunMigrations_Loop ==
    /\ mig.pc = "loop"
    /\ mig' = IF mig.i > Len(mig.files)
              THEN [mig EXCEPT !.pc = "idle", !.result = "nil"]
              ELSE IF mig.files[mig.i] \in mig.appliedMap
                   THEN [mig EXCEPT !.i = @ + 1]
                   ELSE [mig EXCEPT !.pc = "begin",
                                    !.attempted = @ \cup {mig.files[mig.i]}]
    /\ UNCHANGED <<store, nextId, fkCascade, cache, scope, pc, req, local, resp, g, last, calc, schema, we, cmig, fe>>

\* ApplyMigration: m.db.BeginTxx
ApplyMigration_Begin ==
    /\ mig.pc = "begin"
    /\ \E ok \in BOOLEAN :
        mig' = IF ok THEN [mig EXCEPT !.pc = "exec", !.tx = NoTx]
               ELSE ReturnError(mig, "begin")
    /\ UNCHANGED <<store, nextId, fkCascade, cache, scope, pc, req, local, resp, g, last, calc, schema, we, cmig, fe>>

\* variant: the migration's SQL runs outside the transaction
ApplyMigration_Exec_NoTx ==
    /\ mig.pc = "exec"
    /\ \E ok \in BOOLEAN :
        mig' = IF ok THEN [mig EXCEPT !.pc = "record", !.schema[mig.files[mig.i]] = @ + 1]
               ELSE ReturnError(mig, "exec")
    /\ UNCHANGED <<store, nextId, fkCascade, cache, scope, pc, req, local, resp, g, last, calc, schema, we, cmig, fe>>

\* ApplyMigration: tx.ExecContext(ctx, sql)
ApplyMigration_Exec ==
    /\ mig.pc = "exec"
    /\ \E ok \in BOOLEAN :
        mig' = IF ok THEN [mig EXCEPT !.pc = "record", !.tx.exec = TRUE]
               ELSE ReturnError(mig, "exec")
    /\ UNCHANGED <<store, nextId, fkCascade, cache, scope, pc, req, local, resp, g, last, calc, schema, we, cmig, fe>>

\* ApplyMigration: INSERT INTO migrations (name); name is UNIQUE
ApplyMigration_Record ==
    /\ mig.pc = "record"
    /\ \E ok \in BOOLEAN :
        mig' = IF ok /\ Rows(mig.table, mig.files[mig.i]) = {}
               THEN [mig EXCEPT !.pc = "commit", !.tx.row = TRUE]
               ELSE ReturnError(mig, "record")
    /\ UNCHANGED <<store, nextId, fkCascade, cache, scope, pc, req, local, resp, g, last, calc, schema, we, cmig, fe>>

\* what a commit makes durable: the SQL's effects and the row, together
Committed(m) ==
    LET n == m.files[m.i]
    IN  [m EXCEPT !.schema[n] = IF m.tx.exec THEN @ + 1 ELSE @,
                  !.table = IF m.tx.row THEN Append(@, n) ELSE @,
                  !.tx = NoTx]

\* ApplyMigration: tx.Commit(). It commits and returns nil, or fails and
\* nothing is committed, or commits while the caller gets an error (the
\* connection breaks before the acknowledgement)
ApplyMigration_Commit ==
    /\ mig.pc = "commit"
    /\ \E outcome \in {"ok", "failed", "unacked"} :
        mig' = IF outcome = "ok"
               THEN [Committed(mig) EXCEPT !.pc = "loop", !.i = @ + 1,
                                           !.doneNow = @ \cup {mig.files[mig.i]}]
               ELSE IF outcome = "failed" THEN ReturnError(mig, "commit")
               ELSE ReturnError(Committed(mig), "commit")
    /\ UNCHANGED <<store, nextId, fkCascade, cache, scope, pc, req, local, resp, g, last, calc, schema, we, cmig, fe>>

\* one process running migrations, any database call may fail
NextMig ==
    \/ RunMigrations_Start
    \/ RunMigrations_Loop
    \/ ApplyMigration_Begin
    \/ ApplyMigration_Exec
    \/ ApplyMigration_Record
    \/ ApplyMigration_Commit

\* ------------------------------------------- migrations, several processes
\* the process's ApplyMigration returns an error: its transaction is rolled
\* back and its RunMigrations returns
RunnerError(c, q, kind) ==
    [c EXCEPT !.runner[q].pc = "idle", !.runner[q].tx = NoTx, !.runner[q].result = "err",
              !.runner[q].failed = c.runner[q].files[c.runner[q].i],
              !.runner[q].failKind = kind]

\* RunMigrations up to the loop; GetAppliedMigrations reads the committed rows
Conc_RunMigrations_Start(q) ==
    /\ cmig.runner[q].pc = "idle" /\ cmig.runner[q].runs < MaxConcRuns
    /\ \E present \in SUBSET MigrationNames, ok \in BOOLEAN :
        LET r == [cmig.runner[q] EXCEPT !.runs = @ + 1, !.failed = 0, !.failKind = "none",
                                        !.doneNow = {}, !.i = 0, !.files = << >>,
                                        !.appliedMap = {}]
        IN  cmig' = [cmig EXCEPT !.runner[q] =
                       IF ~ok THEN [r EXCEPT !.result = "err"]
                       ELSE IF present = {} THEN [r EXCEPT !.result = "nil"]
                       ELSE [r EXCEPT !.pc = "loop", !.result = "none", !.i = 1,
                                      !.files = SortByName(present),
                                      !.appliedMap =
                                          { cmig.table[j] : j \in 1..Len(cmig.table) }]]
    /\ UNCHANGED <<store, nextId, fkCascade, cache, scope, pc, req, local, resp, g, last, calc, mig, schema, we, fe>>

\* "Apply pending migrations": the loop header
Conc_RunMigrations_Loop(q) ==
    /\ cmig.runner[q].pc = "loop"
    /\ LET r == cmig.runner[q]
       IN  cmig' = [cmig EXCEPT !.runner[q] =
                      IF r.i > Len(r.files) THEN [r EXCEPT !.pc = "idle", !.result = "nil"]
                      ELSE IF r.files[r.i] \in r.appliedMap THEN [r EXCEPT !.i = @ + 1]
                      ELSE [r EXCEPT !.pc = "begin"]]
    /\ UNCHANGED <<store, nextId, fkCascade, cache, scope, pc, req, local, resp, g, last, calc, mig, schema, we, fe>>

\* ApplyMigration: m.db.BeginTxx
Conc_ApplyMigration_Begin(q) ==
    /\ cmig.runner[q].pc = "begin"
    /\ \E ok \in BOOLEAN :
        cmig' = IF ok THEN [cmig EXCEPT !.runner[q].pc = "exec", !.runner[q].tx = NoTx]
                ELSE RunnerError(cmig, q, "begin")
    /\ UNCHANGED <<store, nextId, fkCascade, cache, scope, pc, req, local, resp, g, last, calc, mig, schema, we, fe>>

\* ApplyMigration: tx.ExecContext(ctx, sql); its effects stay in the transaction
Conc_ApplyMigration_Exec(q) ==
    /\ cmig.runner[q].pc = "exec"
    /\ \E ok \in BOOLEAN :
        cmig' = IF ok THEN [cmig EXCEPT !.runner[q].pc = "record", !.runner[q].tx.exec = TRUE]
                ELSE RunnerError(cmig, q, "exec")
    /\ UNCHANGED <<store, nextId, fkCascade, cache, scope, pc, req, local, resp, g, last, calc, mig, schema, we, fe>>

\* another open transaction has inserted the name and not yet ended
NamePending(c, q, name) ==
    \E o \in MigProcs \ {q} :
        c.runner[o].tx.row /\ c.runner[o].files[c.runner[o].i] = name

\* variant: the name column of the migrations table is not UNIQUE
NameFree_NoUnique(c, q, name) == TRUE

\* migrations.name is UNIQUE: no committed row has the name
NameFree(c, q, name) == Rows(c.table, name) = {}

\* ApplyMigration: INSERT INTO migrations (name). The insert waits while
\* another open transaction holds the same name, then fails if that one
\* committed
Conc_ApplyMigration_Record(q) ==
    /\ cmig.runner[q].pc = "record"
    /\ LET name == cmig.runner[q].files[cmig.runner[q].i]
       IN  /\ NameFree(cmig, q, name) => ~NamePending(cmig, q, name)
           /\ \E ok \in BOOLEAN :
               cmig' = IF ~ok THEN RunnerError(cmig, q, "record")
                       ELSE IF ~NameFree(cmig, q, name) THEN RunnerError(cmig, q, "unique")
                       ELSE [cmig EXCEPT !.runner[q].pc = "commit",
                                         !.runner[q].tx.row = TRUE]
    /\ UNCHANGED <<store, nextId, fkCascade, cache, scope, pc, req, local, resp, g, last, calc, mig, schema, we, fe>>

\* what the process's commit makes durable: the SQL's effects and the row
RunnerCommitted(c, q) ==
    LET n == c.runner[q].files[c.runner[q].i]
    IN  [c EXCEPT !.schema[n] = IF c.runner[q].tx.exec THEN @ + 1 ELSE @,
                  !.table = IF c.runner[q].tx.row THEN Append(@, n) ELSE @,
                  !.runner[q].tx = NoTx]

\* ApplyMigration: tx.Commit(): commits, fails, or commits unacknowledged
Conc_ApplyMigration_Commit(q) ==
    /\ cmig.runner[q].pc = "commit"
    /\ \E outcome \in {"ok", "failed", "unacked"} :
        cmig' = IF outcome = "ok"
                THEN [RunnerCommitted(cmig, q) EXCEPT
                        !.runner[q].pc = "loop", !.runner[q].i = @ + 1,
                        !.runner[q].doneNow =
                            @ \cup {cmig.runner[q].files[cmig.runner[q].i]}]
                ELSE IF outcome = "failed" THEN RunnerError(cmig, q, "commit")
                ELSE RunnerError(RunnerCommitted(cmig, q), q, "commit")
    /\ UNCHANGED <<store, nextId, fkCascade, cache, scope, pc, req, local, resp, g, last, calc, mig, schema, we, fe>>

\* several processes migrate the same database, any database call may fail
NextConcMig ==
    \E q \in MigProcs :
        \/ Conc_RunMigrations_Start(q)
        \/ Conc_RunMigrations_Loop(q)
        \/ Conc_ApplyMigration_Begin(q)
        \/ Conc_ApplyMigration_Exec(q)
        \/ Conc_ApplyMigration_Record(q)
        \/ Conc_ApplyMigration_Commit(q)

SpecConcMig == InitOf({{"exercise"}}) /\ [][NextConcMig]_vars

\* -------------------------------------------------------------- frontend
\* App: the routes inside <ProtectedRoute>, and the public ones
ProtectedPaths == {"/", "/workouts", "/exercises", "/programs", "/profile"}
PublicPaths == {"/login", "/register"}

\* ProtectedRoute: currentUser ? children : <Navigate to="/login" replace />
ProtectedRoute(currentUser, path) ==
    IF path \in ProtectedPaths /\ currentUser = "" THEN "/login" ELSE path

\* data.token of the login response for that user
TokenOf(user) == "token-" \o user

RemoveAt(seq, i) == SubSeq(seq, 1, i - 1) \o SubSeq(seq, i + 1, Len(seq))

FrontendFrame ==
    UNCHANGED <<store, nextId, fkCascade, cache, scope, pc, req, local, resp, g, last, calc, mig, schema, we, cmig>>

\* UserStore.login up to its await: setLoading(true), setError(null), the
\* request is sent
UserStore_login ==
    /\ Len(fe.calls) < MaxCalls
    /\ \E u \in FrontendUsers :
        fe' = [fe EXCEPT !.isLoading = TRUE, !.error = "", !.lastCall = "login",
                         !.calls = Append(@, [op |-> "login", user |-> u])]
    /\ FrontendFrame

\* the login request is answered: userService.login stores the token and
\* UserStore.login sets currentUser, or the catch branch sets error
UserStore_login_Settle ==
    /\ \E i \in 1..Len(fe.calls), ok \in BOOLEAN :
        /\ fe.calls[i].op = "login"
        /\ fe' = IF ok
                 THEN [fe EXCEPT !.authToken = TokenOf(fe.calls[i].user),
                                 !.currentUser = fe.calls[i].user, !.isLoading = FALSE,
                                 !.calls = RemoveAt(@, i), !.lastCall = "login"]
                 ELSE [fe EXCEPT !.error = "Login failed", !.isLoading = FALSE,
                                 !.calls = RemoveAt(@, i), !.lastCall = "login"]
    /\ FrontendFrame

\* UserStore.register up to its await
UserStore_register ==
    /\ Len(fe.calls) < MaxCalls
    /\ \E u \in FrontendUsers :
        fe' = [fe EXCEPT !.isLoading = TRUE, !.error = "", !.lastCall = "register",
                         !.calls = Append(@, [op |-> "register", user |-> u])]
    /\ FrontendFrame

\* the register request is answered; userService.register stores no token
UserStore_register_Settle ==
    /\ \E i \in 1..Len(fe.calls), ok \in BOOLEAN :
        /\ fe.calls[i].op = "register"
        /\ fe' = IF ok
                 THEN [fe EXCEPT !.currentUser = fe.calls[i].user, !.isLoading = FALSE,
                                 !.calls = RemoveAt(@, i), !.lastCall = "register"]
                 ELSE [fe EXCEPT !.error = "Registration failed", !.isLoading = FALSE,
                                 !.calls = RemoveAt(@, i), !.lastCall = "register"]
    /\ FrontendFrame

\* UserStore.logout, and the re-render of the observing ProtectedRoute
UserStore_logout ==
    /\ fe' = [fe EXCEPT !.currentUser = "", !.error = "", !.lastCall = "logout",
                        !.location = ProtectedRoute("", fe.location)]
    /\ FrontendFrame

\* the user opens a path; a protected one renders through ProtectedRoute
Navigate ==
    /\ \E path \in ProtectedPaths \cup PublicPaths :
        fe' = [fe EXCEPT !.location = ProtectedRoute(fe.currentUser, path)]
    /\ FrontendFrame

NextFrontend ==
    \/ UserStore_login \/ UserStore_login_Settle
    \/ UserStore_register \/ UserStore_register_Settle
    \/ UserStore_logout \/ Navigate

SpecFrontend == InitOf({{"exercise"}}) /\ [][NextFrontend]_vars

\* ----------------------------------------------------------------- login
\* the users table as the rows in creation order, for any number of users up
\* to MaxUsers: row i has id i, a unique email and the hash of its password
MaxUsers == 2
Passwords == {"p1", "p2"}
Emails == Names \cup {"c"}

\* hashPassword / checkPasswordHash (bcrypt): a hash matches the password it
\* was made from and no other
hashPassword(password) == IF password = "p1" THEN "h1" ELSE "h2"
checkPasswordHash(password, hash) == hash = hashPassword(password)

UserTables ==
    { t \in UNION { [1..n -> [name : Names, pw : Hashes]] : n \in 0..MaxUsers } :
        \A i, j \in 1..Len(t) : i # j => t[i].name # t[j].name }

\* SELECT * FROM users ORDER BY created_at DESC LIMIT limit OFFSET offset
ListUsers(t, limit, offset) ==
    LET hi == Min(Len(t), offset + limit)
    IN  [i \in 1..(IF hi > offset THEN hi - offset ELSE 0) |->
            [id |-> Len(t) + 1 - (offset + i), name |-> t[Len(t) + 1 - (offset + i)].name,
             pw |-> t[Len(t) + 1 - (offset + i)].pw]]

\* generateJWT: a signed token carrying the claim user_id
generateJWT(userID) == << userID >>

\* loginUser: "Find user by email" among ListUsers(ctx, 1, 0), compare the
\* password with the hash, answer 200 with a token or 401
loginUser(t, email, password) ==
    LET users == ListUsers(t, 1, 0)
        found == { i \in 1..Len(users) : users[i].name = email }
    IN  IF Len(users) = 0 \/ found = {}
        THEN [status |-> StatusUnauthorized, token |-> << >>]
        ELSE LET user == users[CHOOSE i \in found : \A j \in found : i <= j]
             IN  IF user.pw = "" \/ ~checkPasswordHash(password, user.pw)
                 THEN [status |-> StatusUnauthorized, token |-> << >>]
                 ELSE [status |-> StatusOK, token |-> generateJWT(user.id)]

\* ---------------------------------------------------- helper functions
\* one call of a helper on arguments chosen at the start: the keys of two
\* descriptors, or the pagination of a query string
\* ------------------------------------------------- create-migration (CLI)
\* file names are sequences of characters, written without their .sql suffix
DigitChars == << "0", "1", "2", "3", "4", "5", "6", "7", "8", "9" >>
IsDigit(ch) == \E d \in 1..Len(DigitChars) : DigitChars[d] = ch
DigitVal(ch) == (CHOOSE d \in 1..Len(DigitChars) : DigitChars[d] = ch) - 1

\* the decimal digits of n
RECURSIVE Decimal(_)
Decimal(n) ==
    IF n < 10 THEN << DigitChars[n + 1] >>
    ELSE Decimal(n \div 10) \o << DigitChars[(n % 10) + 1] >>

\* fmt.Sprintf("%03d", n): zero-padded to three digits, longer when n needs it
Format03d(n) ==
    LET d == Decimal(n)
    IN  IF Len(d) >= 3 THEN d ELSE [i \in 1..(3 - Len(d)) |-> "0"] \o d

\* the number a run of leading digits of str denotes, acc being the digits
\* read so far; <<>> when there is no leading digit
RECURSIVE ScanDigits(_, _)
ScanDigits(str, acc) ==
    IF str # << >> /\ IsDigit(str[1])
    THEN ScanDigits(Tail(str), << (IF acc = << >> THEN 0 ELSE acc[1]) * 10 + DigitVal(str[1]) >>)
    ELSE acc

\* fmt.Sscanf(entry.Name()[:3], "%d", &fileNumber)
Sscanf3(fileName) == ScanDigits(SubSeq(fileName, 1, 3), << >>)

\* the numeric prefix of a migration file name
Prefix(fileName) ==
    LET n == ScanDigits(fileName, << >>) IN IF n = << >> THEN 0 ELSE n[1]

\* getNextMigrationNumber over the .sql entries of the migrations directory
getNextMigrationNumber(entries) ==
    LET numbers == { Sscanf3(f)[1] : f \in { e \in entries : Sscanf3(e) # << >> } }
        maxNumber == IF numbers = {} THEN 0
                     ELSE CHOOSE n \in numbers : \A m \in numbers : m <= n
    IN  maxNumber + 1

\* createMigration: the file name it writes
createMigrationFile(entries, name) ==
    Format03d(getNextMigrationNumber(entries)) \o << "_" >> \o name

\* names create-migration is given, after cleaning
MigrationTitles == { << "a" >>, << "b" >> }

\* files a migrations directory holds: written by create-migration under some
\* number, or named by hand with a short number
MigrationEntries ==
    { Format03d(n) \o << "_" >> \o t : n \in {1, 7, 12, 100, 999, 1000}, t \in MigrationTitles }
    \cup { << "7", "_", "a" >>, << "a", "_", "b" >> }

MaxEntries == 2
MigrationDirs == { S \in SUBSET MigrationEntries : Cardinality(S) <= MaxEntries }

createMigration ==
    /\ calc.fn = "migration" /\ calc.out = << >>
    /\ calc' = [calc EXCEPT !.out = << createMigrationFile(calc.in[1], calc.in[2]) >>]
    /\ UNCHANGED <<store, nextId, fkCascade, cache, scope, pc, req, local, resp, g, last, mig, schema, we, cmig, fe>>

deriveKeys ==
    /\ calc.fn = "keys" /\ calc.out = << >>
    /\ calc' = [calc EXCEPT !.out = << CacheKey(calc.in[1]), CacheKey(calc.in[2]) >>]
    /\ UNCHANGED <<store, nextId, fkCascade, cache, scope, pc, req, local, resp, g, last, mig, schema, we, cmig, fe>>

paginate ==
    /\ calc.fn = "page" /\ calc.out = << >>
    /\ calc' = [calc EXCEPT !.out = << getPaginationParams(calc.in[1], calc.in[2]) >>]
    /\ UNCHANGED <<store, nextId, fkCascade, cache, scope, pc, req, local, resp, g, last, mig, schema, we, cmig, fe>>

login ==
    /\ calc.fn = "login" /\ calc.out = << >>
    /\ calc' = [calc EXCEPT !.out = << loginUser(calc.in[1], calc.in[2], calc.in[3]) >>]
    /\ UNCHANGED <<store, nextId, fkCascade, cache, scope, pc, req, local, resp, g, last, mig, schema, we, cmig, fe>>

CalcInputs ==
    [fn : {"keys"}, in : KeyDescriptors \X KeyDescriptors, out : { << >> }]
    \cup [fn : {"login"}, in : UserTables \X Emails \X Passwords, out : { << >> }]
    \cup [fn : {"page"}, in : PageLimitQueries \X PageOffsetQueries, out : { << >> }]
    \cup [fn : {"migration"}, in : MigrationDirs \X MigrationTitles, out : { << >> }]

InitFn == InitServer({{"exercise"}}) /\ calc \in CalcInputs

NextFn == deriveKeys \/ paginate \/ login \/ createMigration

SpecFn == InitFn /\ [][NextFn]_vars

\* migrations run before the server takes requests
SpecMig == InitOf({{"exercise"}}) /\ [][NextMig]_vars

\* ======================================================== properties
Mutations == {"create", "update", "delete"}

Done(p, op) == pc[p] = "done" /\ req[p].op = op

\* the list windows requests select
ListWindows == { getPaginationParams(q[1], q[2]) : q \in ListQueries }

\* what the store alone answers to a point read of (k, id)
StoreOutcome(s, k, id) ==
    IF Exists(s, k, id) THEN Respond(StatusOK, <<s[k][id]>>)
    ELSE Respond(StatusNotFound, <<>>)

\* what getX answers when it runs alone, start to end, on cache c and store s
\* with every call succeeding
GetOutcome(c, s, k, id) ==
    LET got == GetCache(c, pointCacheKey(k, id))
    IN  IF got.ok /\ UnmarshalOk(got.v, "obj") THEN Respond(StatusOK, got.v.v)
        ELSE StoreOutcome(s, k, id)

\* a mutation of (k, id) is between its start and its response
MutationInFlight(k, id) ==
    \E p \in Procs : /\ pc[p] \notin {"idle", "done"}
                     /\ req[p].op \in {"update", "delete"}
                     /\ req[p].kind = k /\ req[p].id = id

\* the mutation of p committed, its point-key deletion succeeded, and no other
\* request on the entity was in flight from the commit on
CleanMutation(p) == g[p].committed /\ g[p].delOk /\ ~g[p].overlap

\* ----------------------------------------------------------------- C1
\* C1: one client, cache and store healthy: the point read of a workout that
\* follows a successful updateWorkout of it which changed its name answers 200
\* with the store's row, whose name is the updated one (whatever the cache held
\* for the workout before the update).
C1_ReadAfterUpdate ==
    \A p \in Procs :
        (/\ Done(p, "get") /\ req[p].kind = "workout"
         /\ last.op = "update" /\ last.kind = "workout" /\ last.id = req[p].id
         /\ last.patch.name # Omit)
        => /\ resp[p].status = StatusOK
           /\ resp[p].body = ToResponses(<<store["workout"][req[p].id]>>)
           /\ resp[p].body[1].name = last.patch.name

\* the workout was cached by an earlier point read when the update committed,
\* and the read after the update has answered
C1_Witness ==
    \E p \in Procs :
        /\ Done(p, "get") /\ req[p].kind = "workout"
        /\ last.op = "update" /\ last.kind = "workout" /\ last.id = req[p].id
        /\ last.hadEntry
        /\ resp[p].status = StatusOK /\ resp[p].body[1].name = "b"

C3_ListInvalidated ==
    /\ \A p \in Procs :
        (pc[p] = "done" /\ req[p].op \in Mutations /\ g[p].committed)
        => \A w \in ListWindows :
              listCacheKey(req[p].kind, w.limit, w.offset) \notin DOMAIN cache
    /\ \A p \in Procs :
        (Done(p, "list") /\ last.op \in Mutations /\ last.kind = req[p].kind)
        => resp[p].body = ToResponses(ListRows(store, req[p].kind, req[p].limit, req[p].offset))

C5_CachedExist ==
    (\A p \in Procs : pc[p] = "idle")
    => \A k \in Kinds, id \in Ids, w \in ListWindows :
          LET pk == pointCacheKey(k, id)
              lk == listCacheKey(k, w.limit, w.offset)
          IN  /\ (pk \in DOMAIN cache /\ UnmarshalOk(cache[pk], "obj"))
                    => Exists(store, k, id)
              /\ (lk \in DOMAIN cache /\ UnmarshalOk(cache[lk], "arr"))
                    => \A i \in 1..Len(cache[lk].v) : Exists(store, k, cache[lk].v[i].id)

\* ----------------------------------------------------------------- C6
\* C6: the store write of an update changes only the fields its body gives: a
\* field the body omits keeps the value the store holds at the write, so a
\* concurrent update's change to it is not reverted.
C6_OmittedKept ==
    [][\A p \in Procs :
         (pc[p] = "upd_write" /\ pc'[p] = "upd_del")
         => LET old == store[req[p].kind][req[p].id]
                new == store'[req[p].kind][req[p].id]
            IN  /\ req[p].patch.name = Omit => new.name = old.name
                /\ req[p].patch.descr = Omit => new.descr = old.descr
                /\ req[p].patch.pw = Omit => new.pw = old.pw]_vars

\* ----------------------------------------------------------------- C7
\* C7: every user value in the cache, under a point key or in a cached list,
\* has an empty password hash, and the rows in the store keep their hash: the
\* reads that fill the cache do not blank it there.
C7_NoHashInCache ==
    /\ \A id \in Ids, w \in ListWindows :
          LET pk == pointCacheKey("user", id)
              lk == listCacheKey("user", w.limit, w.offset)
          IN  /\ pk \in DOMAIN cache
                    => \A i \in 1..Len(cache[pk].v) : cache[pk].v[i].pw = ""
              /\ lk \in DOMAIN cache
                    => \A i \in 1..Len(cache[lk].v) : cache[lk].v[i].pw = ""
    /\ \A id \in Ids : Exists(store, "user", id) => store["user"][id].pw \in Hashes

C7_Witness ==
    LET pk == pointCacheKey("user", AuthUser)
        lk == listCacheKey("user", 10, 0)
    IN  /\ pk \in DOMAIN cache /\ UnmarshalOk(cache[pk], "obj")
        /\ cache[pk].v[1].id = AuthUser
        /\ lk \in DOMAIN cache /\ UnmarshalOk(cache[lk], "arr") /\ Len(cache[lk].v) > 0
        /\ store["user"][AuthUser].pw = "h1"

\* ----------------------------------------------------------------- C8
\* C8: a read whose cache lookup hit and deserialized answers 200 with the
\* cached value, having made no store query and no cache write.
C8_HitTouchesNothing ==
    \A p \in Procs :
        (pc[p] = "done" /\ req[p].op \in {"get", "list"} /\ g[p].hit)
        => /\ resp[p] = Respond(StatusOK, local[p])
           /\ g[p].dbq = 0
           /\ g[p].cw = 0

C8_Witness ==
    \E p, q \in Procs :
        /\ Done(p, "get") /\ req[p].kind = "workout_session" /\ g[p].hit
        /\ Len(resp[p].body) = 1
        /\ Done(q, "list") /\ req[q].kind = "workout_session" /\ g[q].hit

\* ----------------------------------------------------------------- C9
\* C9: a read whose cache lookup did not give a value (cache error, miss,
\* expired or undeserializable entry) queries the store once, and when the
\* store gives the data it answers 200 with it, whether or not its cache
\* calls succeeded.
C9_CacheFailuresNotFatal ==
    \A p \in Procs :
        (pc[p] = "done" /\ req[p].op \in {"get", "list"} /\ ~g[p].hit)
        => /\ g[p].dbq = 1
           /\ g[p].dbOk => resp[p] = Respond(StatusOK, local[p])
           /\ (g[p].dbOk /\ req[p].op = "get") => Len(resp[p].body) = 1

C9_Witness ==
    \E p \in Procs :
        /\ Done(p, "get") /\ req[p].kind = "exercise"
        /\ ~g[p].hit /\ g[p].cacheErr /\ g[p].dbOk
        /\ resp[p].status = StatusOK
        /\ pointCacheKey("exercise", req[p].id) \notin DOMAIN cache

\* ---------------------------------------------------------------- C10
\* C10: a mutation whose store operation succeeded answers its success status
\* (201 for create, 200 for update, 204 for delete), whether or not the
\* deletion of the point key or of the list pattern succeeded.
C10_InvalidationNotFatal ==
    \A p \in Procs :
        (pc[p] = "done" /\ req[p].op \in Mutations /\ g[p].committed)
        => resp[p].status = CASE req[p].op = "create" -> StatusCreated
                              [] req[p].op = "update" -> StatusOK
                              [] req[p].op = "delete" -> StatusNoContent

C10_Witness ==
    \E p \in Procs :
        /\ Done(p, "update") /\ req[p].kind = "workout"
        /\ g[p].committed /\ ~g[p].delOk
        /\ resp[p].status = StatusOK

\* the statuses that report success
SuccessStatuses == {StatusOK, StatusCreated, StatusNoContent}

\* ---------------------------------------------------------------- C11
\* C11: a request in which a cache call failed (the lookup or the write of a
\* read, the point-key deletion of a mutation) has written, by its response, a
\* log entry that records the cache failure.
C11_CacheFailureLogged ==
    \A p \in Procs :
        (pc[p] = "done" /\ (g[p].cacheErr \/ ~g[p].delOk))
        => \E i \in 1..Len(RequestLog(p)) : RequestLog(p)[i].component = "cache"

\* ---------------------------------------------------------------- C12
\* C12: a point or list read that missed the cache and whose store query gave
\* no data (the row is absent, or the query failed) has made no cache write
\* and answers an error status.
C12_FailedReadCachesNothing ==
    \A p \in Procs :
        (pc[p] = "done" /\ req[p].op \in {"get", "list"} /\ ~g[p].hit /\ ~g[p].dbOk)
        => /\ g[p].cw = 0
           /\ resp[p].status \in {StatusNotFound, StatusInternalServerError}
           /\ resp[p].body = << >>

C12_Witness ==
    \E p, q \in Procs :
        /\ Done(p, "get") /\ req[p].kind = "workout" /\ ~g[p].hit /\ g[p].dbDown
        /\ resp[p].status = StatusNotFound
        /\ Done(q, "list") /\ ~g[q].hit /\ g[q].dbDown
        /\ resp[q].status = StatusInternalServerError
        /\ cache = << >>

\* ---------------------------------------------------------------- C13
\* C13: a request whose store call failed for a connection or timeout error
\* answers 500, never 404 and never a success status.
C13_StoreDownIs500 ==
    \A p \in Procs :
        (pc[p] = "done" /\ g[p].dbDown) => resp[p].status = StatusInternalServerError

\* ---------------------------------------------------------------- C14
\* C14: a delete of an id that is absent from the store (the store itself
\* answering) answers 404, not a success status.
C14_DeleteAbsentIs404 ==
    \A p \in Procs :
        (Done(p, "delete") /\ ~g[p].dbDown /\ ~g[p].rowThere)
        => resp[p].status = StatusNotFound

\* ---------------------------------------------------------------- C15
\* C15: a create, update or delete answers a success status only if, within
\* the request and before the response, the store committed the change: the
\* row was inserted, updated or removed.
C15_SuccessMeansChanged ==
    \A p \in Procs :
        (pc[p] = "done" /\ req[p].op \in Mutations /\ resp[p].status \in SuccessStatuses)
        => /\ g[p].committed
           /\ req[p].op \in {"update", "delete"} => g[p].rowThere

\* ---------------------------------------------------------------- C16
\* C16: whenever the next step of a mutating request is a cache deletion, the
\* request's store mutation has already succeeded and no response has been
\* sent; and a request that has not committed a mutation has removed nothing
\* from the cache.
C16_DeleteAfterCommit ==
    /\ \A p \in Procs :
          pc[p] \in {"cr_dellist", "upd_del", "upd_dellist", "del_del", "del_dellist"}
          => g[p].committed /\ resp[p] = NoResp
    /\ \A p \in Procs :
          (pc[p] \in {"upd_write", "get_db", "get_set", "list_db", "list_set"})
          => ~g[p].committed

C16_Witness ==
    \E p \in Procs :
        /\ pc[p] = "upd_dellist" /\ req[p].kind = "workout_session"
        /\ g[p].committed /\ g[p].hadEntry /\ g[p].delOk
        /\ pointCacheKey("workout_session", req[p].id) \notin DOMAIN cache
        /\ store["workout_session"][req[p].id].name = "b"

\* ---------------------------------------------------------------- C17
\* C17: key derivation has no collisions: the keys of two descriptors are
\* equal only if the descriptors are (same form, same kind, and same id text
\* for point keys or same limit and offset for list keys); in particular no
\* point key of any kind equals a list key of any kind.
C17_KeysInjective ==
    (calc.fn = "keys" /\ calc.out # << >>)
    => /\ calc.out = << CacheKey(calc.in[1]), CacheKey(calc.in[2]) >>
       /\ (calc.out[1] = calc.out[2]) => (calc.in[1] = calc.in[2])

C17_Witness ==
    /\ calc.fn = "keys" /\ calc.out # << >>
    /\ calc.in[1].form = "point" /\ calc.in[1].kind = "workout" /\ calc.in[1].id = "s:list:10:0"
    /\ calc.in[2].form = "list" /\ calc.in[2].kind = "workout"
    /\ calc.in[2].limit = 10 /\ calc.in[2].offset = 0
    /\ calc.out[1] # calc.out[2]

\* ---------------------------------------------------------------- C20
\* C20 as stated: limit is 10 when the parameter is absent and otherwise the
\* requested limit clamped into [1,100] (above 100 gives 100, below 1 gives
\* 1); offset is 0 when absent and otherwise the requested offset with
\* negatives raised to 0.
C20_Original ==
    (calc.fn = "page" /\ calc.out # << >>)
    => LET lq == calc.in[1]
           oq == calc.in[2]
           r == calc.out[1]
       IN  /\ lq = << >> => r.limit = 10
           /\ (lq # << >> /\ lq[1] > 100) => r.limit = 100
           /\ (lq # << >> /\ lq[1] < 1) => r.limit = 1
           /\ (lq # << >> /\ lq[1] >= 1 /\ lq[1] <= 100) => r.limit = lq[1]
           /\ oq = << >> => r.offset = 0
           /\ (oq # << >> /\ oq[1] < 0) => r.offset = 0
           /\ (oq # << >> /\ oq[1] >= 0) => r.offset = oq[1]

\* C20 amended: limit is 10 when the parameter is absent, below 1 or above
\* 100, and otherwise the requested limit; offset is 0 when absent or
\* negative and otherwise the requested offset.
C20_Amended ==
    (calc.fn = "page" /\ calc.out # << >>)
    => LET lq == calc.in[1]
           oq == calc.in[2]
           r == calc.out[1]
       IN  /\ lq = << >> => r.limit = 10
           /\ (lq # << >> /\ (lq[1] > 100 \/ lq[1] < 1)) => r.limit = 10
           /\ (lq # << >> /\ lq[1] >= 1 /\ lq[1] <= 100) => r.limit = lq[1]
           /\ oq = << >> => r.offset = 0
           /\ (oq # << >> /\ oq[1] < 0) => r.offset = 0
           /\ (oq # << >> /\ oq[1] >= 0) => r.offset = oq[1]

C20_Witness ==
    /\ calc.fn = "page" /\ calc.out # << >>
    /\ calc.in[1] = << 101 >> /\ calc.in[2] = << -1 >>
    /\ calc.out[1] = [limit |-> 10, offset |-> 0]

\* ---------------------------------------------------------------- C21
\* C21: whatever the limit and offset parameters carry (absent, no number,
\* negative, zero, very large), getPaginationParams returns a limit between 1
\* and 100 and an offset of at least 0 (the list handlers build their cache
\* key and their store query from that result).
C21_LimitInRange ==
    (calc.fn = "page" /\ calc.out # << >>)
    => /\ calc.out[1].limit >= 1 /\ calc.out[1].limit <= 100
       /\ calc.out[1].offset >= 0

C21_Witness ==
    /\ calc.fn = "page" /\ calc.out # << >>
    /\ calc.in[1] = << BigNumber >> /\ calc.in[2] = << -BigNumber >>
    /\ calc.out[1].limit = 10 /\ calc.out[1].offset = 0

\* ---------------------------------------------------------------- C22
\* C22: a request of a route other than POST /auth/login and POST /users that
\* carries no valid JWT is answered 401 as soon as it is taken up, and the
\* step that takes it up reads and changes neither the store nor the cache
\* (no store query, no cache lookup, write or deletion is counted for it).
C22_NoTokenNoHandler ==
    [][\A p \in Procs :
        (req'[p].op # "none" /\ req'[p].jwt # "valid" /\ ~Public(req'[p]))
        => /\ pc'[p] = "done"
           /\ resp'[p].status = StatusUnauthorized
           /\ g'[p] = NoGhost
           /\ pc[p] # pc'[p] => (store' = store /\ cache' = cache)]_vars

C22_Witness ==
    \E p \in Procs :
        /\ pc[p] = "done" /\ req[p].op = "delete" /\ req[p].jwt = "none"
        /\ resp[p].status = StatusUnauthorized
        /\ Exists(store, req[p].kind, req[p].id)
        /\ pointCacheKey(req[p].kind, req[p].id) \in DOMAIN cache

\* ---------------------------------------------------------------- C23
\* C23: a createWorkout or createWorkoutSession request that passed the JWT
\* middleware never fails to find the user id in the request context, and the
\* row it stores is owned by the authenticated user.
C23_OwnerFromContext ==
    \A p \in Procs :
        (pc[p] = "done" /\ req[p].op = "create" /\ req[p].kind \in OwnedKinds
         /\ req[p].jwt = "valid")
        => /\ resp[p].status # StatusPanic
           /\ g[p].committed => local[p][1].owner = AuthUser

\* ---------------------------------------------------------------- C24
\* C24: for any number of registered users, loginUser answers 200 with a
\* token for user U exactly when the email is U's and the password matches
\* U's hash, and 401 when the email is unknown or the password does not match.
C24_LoginExactly ==
    (calc.fn = "login" /\ calc.out # << >>)
    => LET t == calc.in[1]
           matches == { i \in 1..Len(t) : /\ t[i].name = calc.in[2]
                                          /\ checkPasswordHash(calc.in[3], t[i].pw) }
       IN  IF matches # {}
           THEN /\ calc.out[1].status = StatusOK
                /\ calc.out[1].token \in { generateJWT(i) : i \in matches }
           ELSE calc.out[1].status = StatusUnauthorized

\* ---------------------------------------------------------------- C25
\* C25: over any sequence of RunMigrations invocations by one process, with
\* failures part-way and retries, the SQL of each migration is committed at
\* most once and the migrations table has at most one row per name; after an
\* invocation that returned nil every migration file present has exactly one
\* row.
C25_AppliedOnce ==
    /\ \A n \in MigrationNames :
         /\ mig.schema[n] <= 1
         /\ Cardinality(Rows(mig.table, n)) <= 1
    /\ (mig.pc = "idle" /\ mig.result = "nil")
       => \A j \in 1..Len(mig.files) :
            /\ Cardinality(Rows(mig.table, mig.files[j])) = 1
            /\ mig.schema[mig.files[j]] = 1

C25_Witness ==
    /\ mig.pc = "idle" /\ mig.result = "nil" /\ mig.runs = MaxRuns
    /\ Len(mig.files) = MaxMigrations /\ Len(mig.table) = MaxMigrations
    /\ mig.doneNow = {MaxMigrations}

\* ---------------------------------------------------------------- C26
\* C26: when executing a migration's SQL or recording it fails, that
\* migration leaves neither schema effects nor a row, RunMigrations returns
\* the error without calling ApplyMigration for a later migration, and the
\* migrations committed earlier stay applied.
C26_FailedLeavesNothing ==
    (mig.result = "err" /\ mig.failKind \in {"exec", "record"})
    => /\ mig.pc = "idle"
       /\ mig.schema[mig.failed] = 0
       /\ Rows(mig.table, mig.failed) = {}
       /\ \A n \in mig.attempted : n <= mig.failed
       /\ \A n \in mig.doneNow :
            mig.schema[n] = 1 /\ Cardinality(Rows(mig.table, n)) = 1

C26_Witness ==
    /\ mig.result = "err" /\ mig.failKind = "record" /\ mig.failed = 2
    /\ mig.doneNow = {1} /\ mig.files = << 1, 2, 3 >>
    /\ mig.schema[1] = 1

\* ---------------------------------------------------------------- C27
\* C27: a create or update whose input violates a store constraint (a
\* duplicate user email or username) is answered 400, not 500, and leaves the
\* store unchanged.
C27_ConstraintIs400 ==
    \A p \in Procs :
        (pc[p] = "done" /\ g[p].violates)
        => resp[p].status = StatusBadRequest /\ ~g[p].committed

\* ---------------------------------------------------------------- C28
\* C28: a step of a create, update or delete request whose store mutation
\* (or, for an update, whose pre-read) has not succeeded deletes nothing from
\* the cache and writes nothing to it, and leaves the store as it was.
C28_FailedMutationTouchesNothing ==
    [][\A p \in Procs :
        (pc[p] # pc'[p] /\ req'[p].op \in Mutations /\ ~g'[p].committed)
        => (cache' = cache /\ store' = store)]_vars

C28_Witness ==
    \E p \in Procs :
        /\ Done(p, "update") /\ req[p].kind = "workout"
        /\ resp[p].status = StatusInternalServerError /\ g[p].dbDown
        /\ pointCacheKey("workout", req[p].id) \in DOMAIN cache

\* ---------------------------------------------------------------- C29
\* C29: the only handler steps that put a value into the cache are the last
\* steps of point and list reads, and each stores the value that request read
\* from the store under the key computed for that request; no step of a
\* create, update or delete writes a cache value.
C29_OnlyReadsWrite ==
    [][\A p \in Procs : \A key \in DOMAIN cache' :
        (pc[p] # pc'[p] /\ (key \notin DOMAIN cache \/ cache'[key] # cache[key]))
        => /\ g[p].dbOk
           /\ \/ /\ req[p].op = "get"
                 /\ key = pointCacheKey(req[p].kind, req[p].id)
                 /\ cache'[key] = Marshal(ToCache(req[p].kind, local[p][1]))
              \/ /\ req[p].op = "list"
                 /\ key = listCacheKey(req[p].kind, req[p].limit, req[p].offset)
                 /\ cache'[key] = MarshalList(ToCacheList(req[p].kind, local[p]))]_vars

C29_Witness ==
    \E p \in Procs :
        /\ Done(p, "list") /\ req[p].kind = "exercise" /\ g[p].cw = 1
        /\ Len(local[p]) = 1
        /\ listCacheKey("exercise", req[p].limit, req[p].offset) \in DOMAIN cache
        /\ cache[listCacheKey("exercise", req[p].limit, req[p].offset)]
             = MarshalList(ToCacheList("exercise", local[p]))

\* ---------------------------------------------------------------- C30
\* C30: after a successful update every field the request body provided is
\* the stored row's value: name, description, and for a workout the program
\* reference given as programId.
C30_AllFieldsApplied ==
    (Done(1, "update") /\ resp[1].status = StatusOK)
    => LET row == store[req[1].kind][req[1].id]
           patch == req[1].patch
       IN  /\ patch.name # Omit => row.name = patch.name
           /\ patch.descr # Omit => row.descr = patch.descr
           /\ patch.prog # Omit => row.prog = patch.prog

\* ---------------------------------------------------------------- C31
\* C31: an update whose row is absent from the store when its UPDATE
\* statement runs (the store itself answering) is reported 404 and changes
\* nothing, also when a concurrent request deleted the row between the
\* handler's pre-read and its UPDATE.
C31_UpdateAbsentIs404 ==
    \A p \in Procs :
        (Done(p, "update") /\ g[p].dbq = 2 /\ ~g[p].dbDown /\ ~g[p].violates
         /\ ~g[p].committed)
        => resp[p].status = StatusNotFound

\* ---------------------------------------------------------------- C32
\* C32: Program follows the read-through protocol like the other kinds: once
\* a Program point or list read has answered from the store, the result is in
\* the cache under a program key.
C32_ProgramReadThrough ==
    \A p \in Procs :
        (pc[p] = "done" /\ req[p].kind = "program" /\ req[p].op \in {"get", "list"}
         /\ resp[p].status = StatusOK)
        => \E key \in DOMAIN cache :
             key \in { pointCacheKey("program", id) : id \in Ids }
                     \cup { listCacheKey("program", req[p].limit, req[p].offset) }

\* ---------------------------------------------------------------- C33
\* C33: after any sequence of successful and failed creates and updates of
\* workout exercises no two stored rows share (workout_id, exercise_id,
\* order_index), and an operation that would make such a duplicate fails and
\* leaves the stored rows as they were.
C33_TripleUnique ==
    [][/\ \A i, j \in WEIds : (i # j /\ we'[i] # NoWE) => we'[i] # we'[j]
       /\ \A p \in Procs :
            (pc[p] # pc'[p] /\ req'[p].kind = "workout_exercise" /\ g'[p].violates)
            => (we' = we /\ resp'[p].status >= 400)]_vars

C33_Witness ==
    \E p \in Procs :
        /\ Done(p, "update") /\ req[p].kind = "workout_exercise" /\ g[p].violates
        /\ \A i \in WEIds : we[i] # NoWE

\* ---------------------------------------------------------------- C34
\* C34: in the schema after migrations 001 to 007, once DELETE of a user has
\* committed, no workout, workout session or program of that user is left.
C34_DeleteUserCascades ==
    (schema = SchemaAfter(LastMigration) /\ Done(1, "delete") /\ req[1].kind = "user"
     /\ g[1].committed /\ g[1].rowThere)
    => \A k \in UserOwned, j \in Ids :
         store[k][j] = NoRow \/ store[k][j].owner # req[1].id

\* ---------------------------------------------------------------- C35
\* C35: within one RunMigrations invocation, while ApplyMigration runs for a
\* migration, every pending migration of this invocation with a smaller name
\* has already been committed and recorded by it, and none with a larger name
\* has been attempted.
C35_AscendingOrder ==
    mig.pc \in {"begin", "exec", "record", "commit"}
    => LET cur == mig.files[mig.i]
       IN  /\ \A j \in 1..Len(mig.files) :
                (mig.files[j] < cur /\ mig.files[j] \notin mig.appliedMap)
                => /\ mig.files[j] \in mig.doneNow
                   /\ Rows(mig.table, mig.files[j]) # {}
                   /\ mig.schema[mig.files[j]] = 1
           /\ \A n \in mig.attempted : n <= cur

C35_Witness ==
    /\ mig.pc = "commit" /\ Len(mig.files) = MaxMigrations /\ mig.i = MaxMigrations
    /\ mig.appliedMap = {} /\ mig.doneNow = { mig.files[j] : j \in 1..(mig.i - 1) }
    /\ mig.tx.exec /\ mig.tx.row

\* ---------------------------------------------------------------- C36
\* C36: when several processes run RunMigrations on the same database at the
\* same time, the SQL of no migration is committed twice and the migrations
\* table never holds two rows with the same name: of the transactions opened
\* for one migration at most one commits.
C36_ConcurrentAppliedOnce ==
    \A n \in MigrationNames :
        /\ cmig.schema[n] <= 1
        /\ Cardinality(Rows(cmig.table, n)) <= 1
        /\ Cardinality({ q \in MigProcs : n \in cmig.runner[q].doneNow }) <= 1

C36_Witness ==
    \E q, o \in MigProcs, n \in MigrationNames :
        /\ q # o
        /\ cmig.runner[q].failed = n /\ cmig.runner[q].failKind = "unique"
        /\ n \notin cmig.runner[q].appliedMap
        /\ n \in cmig.runner[o].doneNow /\ cmig.schema[n] = 1

\* ---------------------------------------------------------------- C37
\* C37: for any set of existing migration files, the file createMigration
\* writes has a numeric prefix strictly greater than the prefix of every
\* existing file, so it is none of the existing files.
C37_PrefixGreater ==
    (calc.fn = "migration" /\ calc.out # << >>)
    => /\ \A f \in calc.in[1] : Prefix(calc.out[1]) > Prefix(f)
       /\ calc.out[1] \notin calc.in[1]

\* ---------------------------------------------------------------- C38
\* C38: in the schema after migrations 001 to 007 an UPDATE of an existing
\* workout_exercises row succeeds, so updateWorkoutExercise on an existing id
\* with a valid body (the store answering, no duplicate made) returns success.
C38_UpdateJoinRowSucceeds ==
    \A p \in Procs :
        (Done(p, "update") /\ req[p].kind = "workout_exercise"
         /\ schema = SchemaAfter(LastMigration)
         /\ g[p].dbq = 2 /\ g[p].rowThere /\ ~g[p].dbDown
         /\ UniqueTriple(we, req[p].id, ApplyWEPatch(we[req[p].id], req[p].patch)))
        => resp[p].status = StatusOK

\* ---------------------------------------------------------------- C39
\* C39: a password hash is written to the store only: no request writes one
\* to standard output or the log, and no response body carries one.
C39_HashOnlyInStore ==
    \A p \in Procs :
        /\ \A i \in 1..Len(g[p].printed) : g[p].printed[i] \notin Hashes
        /\ \A i \in 1..Len(resp[p].body) : "pw" \notin DOMAIN resp[p].body[i]

\* ---------------------------------------------------------------- C40
\* C40: once UserStore.logout() has run (and no later login or register),
\* currentUser is null, every protected route renders the redirect to /login,
\* and localStorage holds no auth token.
C40_LoggedOutEverywhere ==
    fe.lastCall = "logout"
    => /\ fe.currentUser = ""
       /\ \A path \in ProtectedPaths : ProtectedRoute(fe.currentUser, path) = "/login"
       /\ fe.location \notin ProtectedPaths
       /\ fe.authToken = ""

\* ---------------------------------------------------------------- C18
\* the entry under key is readable and differs from what the store holds
StalePoint(id) ==
    LET key == pointCacheKey("exercise", id)
    IN  /\ key \in DOMAIN cache /\ UnmarshalOk(cache[key], "obj")
        /\ Respond(StatusOK, cache[key].v) # StoreOutcome(store, "exercise", id)

StaleList(w) ==
    LET key == listCacheKey("exercise", w.limit, w.offset)
    IN  /\ key \in DOMAIN cache /\ UnmarshalOk(cache[key], "arr")
        /\ cache[key].v # ToCacheList("exercise", ListRows(store, "exercise", w.limit, w.offset))

AnyStale ==
    \/ \E id \in Ids : StalePoint(id)
    \/ \E w \in ListWindows : StaleList(w)

MutationRunning == \E p \in Procs : req[p].op \in Mutations

\* C18: under fair scheduling, an entry that disagrees with the store does not
\* stay: the point or list key that holds it is eventually removed or agrees
\* again (a hit writes nothing, so it extends no TTL); and if from some time on
\* no mutation runs, then from some time on no entry disagrees with the store,
\* so every read answers the store's state.
C18_BoundedStaleness ==
    /\ \A id \in Ids : StalePoint(id) ~> ~StalePoint(id)
    /\ \A w \in ListWindows : StaleList(w) ~> ~StaleList(w)
    /\ (<>[](~MutationRunning)) => (<>[](~AnyStale))

C18_Witness ==
    /\ \E id \in Ids : StalePoint(id)
    /\ \E w \in ListWindows : StaleList(w)
    /\ \A p \in Procs : pc[p] = "idle"

\* ---------------------------------------------------------------- C19
\* C19: for one client and every sequence of operations, every read answers
\* what the same system with a cache that always misses answers: the store's
\* row (or 404) for a point read, the store's rows of the window for a list.
C19_CacheTransparent ==
    \A p \in Procs :
        /\ Done(p, "get") => resp[p] = StoreOutcome(store, req[p].kind, req[p].id)
        /\ Done(p, "list")
             => resp[p] = Respond(StatusOK,
                                  ListRows(store, req[p].kind, req[p].limit, req[p].offset))

====
